---------------------------- MODULE Spec2Model ----------------------------
(***************************************************************************)
(* A model of move2notion's OneNote -> Notion migration:                   *)
(*   - tools/onenote_migration/cli.py          (run, pass 1, pass 2)       *)
(*   - tools/onenote_migration/content_mapper.py (page import, validator)  *)
(*   - tools/onenote_migration/html_parser.py  (HTML -> blocks)            *)
(*   - core/state_manager.py, core/notion_client.py                        *)
(*                                                                         *)
(* Strings are sequences of runs: a run [s, o, n] is the n characters of   *)
(* the base string s that start at offset o.  Slicing cuts runs, joining   *)
(* merges runs that continue each other, so a cut and a later join are     *)
(* what they are in the program and a text is never compared by length     *)
(* alone.  Distinct base strings share no characters.                      *)
(***************************************************************************)
EXTENDS Integers, Sequences, FiniteSets, TLC

VARIABLES
    args,     \* the command line: resolve_links, dry_run, resume, database_id
    pc,       \* position of the run in cli.run / run_migration / run_link_resolution
    db,       \* the destination database: its pages, their property and blocks
    calls,    \* every call issued to the destination (the sink), in order
    lr,       \* run_link_resolution's locals: pages, page_mapping, counters
    snap,     \* history: the destination as pass 2 found it
    onenote,  \* the source: its notebooks (sections, pages), the database's schema
    state,    \* the state store: page key -> stored checksum
    mig,      \* run_migration's position in the source, and its log of pages
    mp        \* map_page_to_notion's locals for the page being imported

vars == <<args, pc, db, calls, lr, snap, onenote, state, mig, mp>>

-----------------------------------------------------------------------------
(* Text *)

\* html_parser.py:17  len(" (Verlinkung unvollständig)")
MarkerLen == 27

Seg(s, o, n) == [s |-> s, o |-> o, n |-> n]

\* INCOMPLETE_LINK_MARKER
INCOMPLETE_LINK_MARKER == << Seg("MARKER", 0, MarkerLen) >>

RECURSIVE TLen(_)
TLen(t) == IF t = << >> THEN 0 ELSE Head(t).n + TLen(Tail(t))

\* Joins runs that continue each other and drops empty ones: the canonical
\* form of a string, so that equal strings are equal values.
RECURSIVE Norm(_)
Norm(t) ==
    IF t = << >> THEN << >>
    ELSE IF Head(t).n = 0 THEN Norm(Tail(t))
    ELSE LET r == Norm(Tail(t)) IN
         IF r # << >> /\ Head(r).s = Head(t).s /\ Head(r).o = Head(t).o + Head(t).n
         THEN << Seg(Head(t).s, Head(t).o, Head(t).n + Head(r).n) >> \o Tail(r)
         ELSE << Head(t) >> \o r

Cat(a, b) == Norm(a \o b)

\* Python's  marker in text
Contains(t, m) ==
    \E k \in 1..Len(t) : t[k].s = m[1].s /\ t[k].o <= m[1].o
                         /\ t[k].o + t[k].n >= m[1].o + m[1].n

\* Python's  text.replace(marker, ""):  every occurrence found left to right
\* is removed; what is left of a run around it stays.
RECURSIVE RemoveAll(_, _)
RemoveAll(t, m) ==
    IF t = << >> THEN << >>
    ELSE LET h == Head(t) IN
         IF h.s = m[1].s /\ h.o <= m[1].o /\ h.o + h.n >= m[1].o + m[1].n
         THEN << Seg(h.s, h.o, m[1].o - h.o),
                 Seg(h.s, m[1].o + m[1].n, h.o + h.n - (m[1].o + m[1].n)) >>
              \o RemoveAll(Tail(t), m)
         ELSE << h >> \o RemoveAll(Tail(t), m)

Replace(t, m) == Norm(RemoveAll(t, m))


-----------------------------------------------------------------------------
(* Source identifiers and links *)

\* An identifier is a string of chunks between optional braces.  A "hex"
\* chunk is a non-empty string over [a-f0-9-] (up: it holds A-F), an "oth"
\* chunk a non-empty string of other characters (none of & / ? { } or space).
Chunk(c, v, up) == [c |-> c, v |-> v, up |-> up]
IdStr(lb, body, rb) == [lb |-> lb, body |-> body, rb |-> rb]
EmptyId == IdStr(FALSE, << >>, FALSE)

\* Python's truth value of a string
NonEmpty(s) == s.lb \/ s.rb \/ s.body # << >>

\* s.strip("{}")
StripBraces(s) == IdStr(FALSE, s.body, FALSE)

\* s.lower()
Lower(s) ==
    IdStr(s.lb, [k \in 1..Len(s.body) |-> Chunk(s.body[k].c, s.body[k].v, FALSE)], s.rb)

\* cli.py:502, 507, 598   onenote_page_id.lower().strip("{}")
NormalizeId(s) == StripBraces(Lower(s))

RECURSIVE LeadingHex(_)
LeadingHex(body) ==
    IF body = << >> \/ Head(body).c # "hex" THEN << >>
    ELSE << Head(body) >> \o LeadingHex(Tail(body))

\* A link target.  k = "q": the href holds  page-id=<v>  (up to the next &);
\* "path": it holds  /onenote/pages/<v>;  "sec": an internal link that names a
\* section only;  "ext": an external URL;  "notion": https://notion.so/<pg>;
\* "none": the span has no link.
Href(k, v, pg) == [k |-> k, v |-> v, pg |-> pg]
NoLink == Href("none", EmptyId, 0)
NoId == [ok |-> FALSE, id |-> EmptyId]
SomeId(s) == [ok |-> TRUE, id |-> s]

\* html_parser.py:32-48.  The three patterns in order, the first match wins:
\*   page-id=\{?([a-f0-9-]+)\}?   (IGNORECASE)  the leading hex characters
\*   page-id=([^&]+)                            everything up to the next &
\*   /pages/([^/?\s]+)                          the path segment
extract_page_id_from_link(href) ==
    IF href.k = "q" THEN
        IF LeadingHex(href.v.body) # << >>
        THEN SomeId(StripBraces(IdStr(FALSE, LeadingHex(href.v.body), FALSE)))
        ELSE IF NonEmpty(href.v) THEN SomeId(StripBraces(href.v))
        ELSE NoId
    ELSE IF href.k = "path" THEN
        IF NonEmpty(href.v) THEN SomeId(StripBraces(href.v)) ELSE NoId
    ELSE NoId

\* html_parser.py:20-29
is_onenote_internal_link(href) == href.k \in {"q", "path", "sec"}

-----------------------------------------------------------------------------
(* The destination (Notion): pages of one database *)

\* A rich-text span as the sink stores it.
Span(content, link, ann) == [content |-> content, link |-> link, ann |-> ann]

\* A block: its type, its spans, and how deep it lies below the page
\* (0: a child of the page).  Blocks of a page are kept in document order, a
\* block's children right after it.
Block(type, rich_text, level) == [type |-> type, rich_text |-> rich_text, level |-> level]

\* A page: its id, its OneNotePageId property (type and value), its blocks.
Page(id, ptype, pval, blocks) ==
    [id |-> id, prop |-> [type |-> ptype, val |-> pval], blocks |-> blocks]

\* A call to the sink, as logged.
Call(op, pg, blk, rt, ok) == [op |-> op, pg |-> pg, blk |-> blk, rt |-> rt, ok |-> ok]

WriteOps == {"create_page", "update_page", "append_children", "upload", "upload_send",
             "update_block"}
Pass2Ops == {"query_database", "get_block_children", "update_block"}
Pass1Ops == {"create_page", "update_page", "append_children", "upload", "upload_send"}

-----------------------------------------------------------------------------
(* More text: cutting, whitespace, checkbox prefixes *)

\* html_parser.py:314 and content_mapper.py:242  the per-span limit
SpanLimit == 2000

\* t[:n]
RECURSIVE Take(_, _)
Take(t, n) ==
    IF t = << >> \/ n <= 0 THEN << >>
    ELSE IF Head(t).n <= n THEN << Head(t) >> \o Take(Tail(t), n - Head(t).n)
    ELSE << Seg(Head(t).s, Head(t).o, n) >>

\* t[n:]
RECURSIVE Drop(_, _)
Drop(t, n) ==
    IF t = << >> \/ n <= 0 THEN t
    ELSE IF Head(t).n <= n THEN Drop(Tail(t), n - Head(t).n)
    ELSE << Seg(Head(t).s, Head(t).o + n, Head(t).n - n) >> \o Tail(t)

\* The base string "WS" is white space; no other base string starts or ends
\* with white space, except the marker, which starts with a blank.
WS(n) == << Seg("WS", 0, n) >>

\* t.strip() = ""
IsBlank(t) == \A k \in 1..Len(t) : t[k].s = "WS"

RECURSIVE LStrip(_)
LStrip(t) == IF t # << >> /\ Head(t).s = "WS" THEN LStrip(Tail(t)) ELSE t

RECURSIVE RStrip(_)
RStrip(t) ==
    IF t # << >> /\ t[Len(t)].s = "WS" THEN RStrip(SubSeq(t, 1, Len(t) - 1)) ELSE t

\* t.strip()
Strip(t) == RStrip(LStrip(t))

\* The base strings "CBT" and "CBF" are one checked / unchecked checkbox
\* glyph; "MDX" is "[x]" or "[X]", "MDO" is "[ ]".
\* text.startswith(checkbox_unicode_true), ..false)
StartsChecked(t) == t # << >> /\ Head(t).s = "CBT" /\ Head(t).o = 0
StartsUnchecked(t) == t # << >> /\ Head(t).s = "CBF" /\ Head(t).o = 0

\* re.match(r"^\s*\[(x|X)\]\s+", text)  and  re.match(r"^\s*\[\s\]\s+", text)
MdMatch(t, b) ==
    LET u == LStrip(t) IN
    /\ Len(u) >= 2
    /\ u[1].s = b /\ u[1].o = 0 /\ u[1].n = 3
    /\ u[2].s = "WS"

-----------------------------------------------------------------------------
(* The source markup as a tree (BeautifulSoup) *)

\* A tag's attributes.  style: the CSS declarations of the style attribute;
\* href: the link target ("none": no href); datatag: data-tag holds "to-do";
\* checkbox: type="checkbox"; checked: the checked attribute is present;
\* alt: the alt text; src: the resource the image names (0: no src of any
\* kind); id: which image object it is.
NoAttrs == [style |-> {}, href |-> NoLink, datatag |-> FALSE, checkbox |-> FALSE,
            checked |-> FALSE, alt |-> "", src |-> 0, id |-> 0]

\* The sequences of a sequence, joined in order
RECURSIVE ConcatRange(_, _, _)
ConcatRange(ss, lo, hi) ==
    IF lo > hi THEN << >>
    ELSE IF lo = hi THEN ss[lo]
    ELSE LET mid == (lo + hi) \div 2
         IN ConcatRange(ss, lo, mid) \o ConcatRange(ss, mid + 1, hi)

ConcatAll(ss) == ConcatRange(ss, 1, Len(ss))

\* A NavigableString and a Tag
Str(t) == [tag |-> "#text", text |-> t, kids |-> << >>, at |-> NoAttrs]
Tag(name, at, kids) == [tag |-> name, text |-> << >>, kids |-> kids, at |-> at]
El(name, kids) == Tag(name, NoAttrs, kids)

\* el.descendants: every node below el in document order, with the name of
\* its parent.
RECURSIVE DescendantsOf(_, _)
DescendantsOf(kids, parent) ==
    ConcatAll([k \in 1..Len(kids) |->
                  << [n |-> kids[k], parent |-> parent] >>
                  \o DescendantsOf(kids[k].kids, kids[k].tag)])

Descendants(el) == DescendantsOf(el.kids, el.tag)

\* el.find_all(name): the descendant tags of that name, in document order
FindAll(el, names) ==
    LET Named(d) == SelectSeq([k \in 1..Len(d) |-> d[k].n], LAMBDA n : n.tag \in names)
    IN Named(Descendants(el))

\* el.find_all(name, recursive=False)
FindDirect(el, names) == SelectSeq(el.kids, LAMBDA n : n.tag \in names)

\* el.get_text(): the strings below el, joined
JoinTexts(ns) == ConcatAll([k \in 1..Len(ns) |-> ns[k].text])

get_text(el) ==
    IF el.tag = "#text" THEN Norm(el.text) ELSE Norm(JoinTexts(FindAll(el, {"#text"})))

\* el.get_text(" ", strip=True): each string stripped, the empty ones left
\* out, the others joined by one blank
RECURSIVE JoinStripped(_)
JoinStripped(ns) ==
    IF ns = << >> THEN << >>
    ELSE LET Join(h, r) == IF h = << >> THEN r
                           ELSE IF r = << >> THEN h
                           ELSE h \o WS(1) \o r
         IN Join(Strip(Head(ns).text), JoinStripped(Tail(ns)))

get_text_sep(el) == JoinStripped(FindAll(el, {"#text"}))

\* el.get_text(strip=True) is not empty
HasText(el) ==
    LET Some(ts) == \E k \in 1..Len(ts) : ~IsBlank(ts[k].text)
    IN Some(FindAll(el, {"#text"}))

-----------------------------------------------------------------------------
(* html_parser.py: build_rich_text *)

\* html_parser.py:51-63
process_onenote_link(href) ==
    IF is_onenote_internal_link(href)
    THEN [url |-> href, suffix |-> INCOMPLETE_LINK_MARKER]
    ELSE [url |-> href, suffix |-> << >>]

\* html_parser.py:191-222: the annotations a style attribute switches on
parse_style_annotations(style) ==
    (IF "font-weight:bold" \in style \/ "font-weight:700" \in style THEN {"bold"} ELSE {})
    \cup (IF "font-style:italic" \in style THEN {"italic"} ELSE {})
    \cup (IF "text-decoration:underline" \in style THEN {"underline"} ELSE {})
    \cup (IF "text-decoration:line-through" \in style THEN {"strikethrough"} ELSE {})

\* html_parser.py:264-282: the annotation a tag switches on
TagAnnotations(name) ==
    IF name \in {"strong", "b"} THEN {"bold"}
    ELSE IF name \in {"em", "i"} THEN {"italic"}
    ELSE IF name = "u" THEN {"underline"}
    ELSE IF name \in {"strike", "s", "del"} THEN {"strikethrough"}
    ELSE IF name = "code" THEN {"code"}
    ELSE {}

\* html_parser.py:224-303: the spans of a node, given the annotations that
\* are on (a set: the ones that are True).  An anchor with an href gives one
\* span of its whole text and is not descended into.
RECURSIVE process_node(_, _, _)
RECURSIVE process_children(_, _, _)
process_node(n, annotations, exclude_nested_lists) ==
    IF n.tag = "#text"
    THEN IF n.text # << >> THEN << Span(Norm(n.text), NoLink, annotations) >> ELSE << >>
    ELSE IF exclude_nested_lists /\ n.tag \in {"ul", "ol"} THEN << >>
    ELSE LET Linked(link_text, link, new_annotations) ==
                 IF link_text # << >>
                 THEN << Span(Cat(link_text, link.suffix), link.url, new_annotations) >>
                 ELSE << >>
             With(new_annotations) ==
                 IF n.tag = "a" /\ n.at.href.k # "none"
                 THEN Linked(get_text(n), process_onenote_link(n.at.href), new_annotations)
                 ELSE process_children(n.kids, new_annotations, exclude_nested_lists)
         IN With(annotations \cup parse_style_annotations(n.at.style) \cup TagAnnotations(n.tag))

process_children(kids, annotations, exclude_nested_lists) ==
    IF kids = << >> THEN << >>
    ELSE process_node(Head(kids), annotations, exclude_nested_lists)
         \o process_children(Tail(kids), annotations, exclude_nested_lists)

\* html_parser.py:311-314: a span longer than the limit is cut at the limit
\* (and a variant that leaves every span as it is)
Truncate_none(parts) == parts

Truncate(parts) ==
    [k \in 1..Len(parts) |->
        IF TLen(parts[k].content) > SpanLimit
        THEN [parts[k] EXCEPT !.content = Take(@, SpanLimit)]
        ELSE parts[k]]

\* html_parser.py:182-323.  A span without annotations has the empty set.
build_rich_text(node, exclude_nested_lists) ==
    LET parts == process_node(node, {}, exclude_nested_lists)
        kept == SelectSeq(parts, LAMBDA p : ~IsBlank(p.content))
        OrEmpty(cut) == IF cut = << >> THEN << Span(<< >>, NoLink, {}) >> ELSE cut
    IN OrEmpty(Truncate(kept))

-----------------------------------------------------------------------------
(* html_parser.py: html_to_blocks_and_tables *)

\* A block as the converter builds it.  rich_text is empty for a block
\* without that key (image, file); checked is "absent" for a block without
\* that key; upload is the upload id of an image or file block (0: none).
NBlock(type, rich_text, checked, children, upload) ==
    [type |-> type, rich_text |-> rich_text, checked |-> checked,
     children |-> children, upload |-> upload]

TextBlock(type, rich_text) == NBlock(type, rich_text, "absent", << >>, 0)
ToDoBlock(rich_text, checked) ==
    NBlock("to_do", rich_text, IF checked THEN "true" ELSE "false", << >>, 0)

\* The converter's running state: the blocks and tables so far, the images
\* already handled (processed_imgs), the requests of the step to the sink
\* (ups), the number of upload slots the sink has created (nup), the log of
\* the resources handled (res), and whether an exception is on its way out
\* of html_to_blocks_and_tables (raised).
CS0 == [blocks |-> << >>, tables |-> << >>, processed |-> {}, ups |-> << >>,
        nup |-> 0, res |-> << >>, raised |-> FALSE]

\* notion_client.py:157  the size ceiling of an upload, in bytes
MaxUploadSize == 20 * 1024 * 1024

\* How the transfer of one resource goes.  fetch: fetch_resource returns the
\* data ("ok") or None ("fail": an error status, an exception, no data);
\* size: len(data);  slot, send: the answer to the file_uploads request and
\* to the send request: "ok", "status" (not 200), "raise" (requests.post
\* raises).
Res(fetch, size, slot, send) == [fetch |-> fetch, size |-> size, slot |-> slot, send |-> send]

\* notion_client.py:149-190  upload_file for the data of resource src, when
\* the sink has created n slots before: the upload id returned (0: None),
\* the requests made, and whether an exception leaves the method.  The sink
\* names the slot it creates n + 1.  (And a variant without the size check.)
upload_file_nocheck(src, r, n) ==
    IF r.slot # "ok"
    THEN [id |-> 0, raised |-> r.slot = "raise",
          calls |-> << Call("upload", 0, src, << >>, FALSE) >>]
    ELSE IF r.send # "ok"
    THEN [id |-> 0, raised |-> r.send = "raise",
          calls |-> << Call("upload", n + 1, src, << >>, TRUE),
                       Call("upload_send", n + 1, src, << >>, FALSE) >>]
    ELSE [id |-> n + 1, raised |-> FALSE,
          calls |-> << Call("upload", n + 1, src, << >>, TRUE),
                       Call("upload_send", n + 1, src, << >>, TRUE) >>]

upload_file(src, r, n) ==
    IF r.size > MaxUploadSize THEN [id |-> 0, raised |-> FALSE, calls |-> << >>]
    ELSE IF r.slot # "ok"
    THEN [id |-> 0, raised |-> r.slot = "raise",
          calls |-> << Call("upload", 0, src, << >>, FALSE) >>]
    ELSE IF r.send # "ok"
    THEN [id |-> 0, raised |-> r.send = "raise",
          calls |-> << Call("upload", n + 1, src, << >>, TRUE),
                       Call("upload_send", n + 1, src, << >>, FALSE) >>]
    ELSE [id |-> n + 1, raised |-> FALSE,
          calls |-> << Call("upload", n + 1, src, << >>, TRUE),
                       Call("upload_send", n + 1, src, << >>, TRUE) >>]

\* html_parser.py:516-526, 543-553, 654-664, 670-674: fetch a resource and
\* upload it; the block is added only when both give something.  io tells
\* for each resource how its transfer goes this time.  Every fetch is logged
\* in res with what upload_file did for it.
PutResource(st, src, io, type) ==
    LET Entry(r, up) == [src |-> src, io |-> r, id |-> up.id, calls |-> up.calls]
        Put(r, up) ==
            [st EXCEPT !.res = Append(@, Entry(r, up)),
                       !.ups = @ \o up.calls,
                       !.nup = IF up.calls # << >> /\ up.calls[1].ok THEN @ + 1 ELSE @,
                       !.raised = up.raised,
                       !.blocks = IF up.id # 0
                                  THEN Append(@, NBlock(type, << >>, "absent", << >>, up.id))
                                  ELSE @]
    IN IF io[src].fetch # "ok"
       THEN [st EXCEPT !.res = Append(@, [src |-> src, io |-> io[src], id |-> 0,
                                          calls |-> << >>])]
       ELSE Put(io[src], upload_file(src, io[src], st.nup))

\* html_parser.py:481-485, 501-504: the children collected before an image,
\* written out, stripped and parsed again as the content of a <span>.
RECURSIVE TrimLeft(_)
TrimLeft(kids) ==
    IF kids = << >> \/ Head(kids).tag # "#text" THEN kids
    ELSE IF LStrip(Head(kids).text) = << >> THEN TrimLeft(Tail(kids))
    ELSE << Str(LStrip(Head(kids).text)) >> \o Tail(kids)

RECURSIVE TrimRight(_)
TrimRight(kids) ==
    IF kids = << >> \/ kids[Len(kids)].tag # "#text" THEN kids
    ELSE IF RStrip(kids[Len(kids)].text) = << >> THEN TrimRight(SubSeq(kids, 1, Len(kids) - 1))
    ELSE SubSeq(kids, 1, Len(kids) - 1) \o << Str(RStrip(kids[Len(kids)].text)) >>

TextPart(current_text) ==
    LET Part(kids) ==
            IF kids = << >> THEN << >>
            ELSE << [t |-> "text", rt |-> build_rich_text(El("span", kids), FALSE), src |-> 0] >>
    IN Part(TrimRight(TrimLeft(current_text)))

ImagePart(src) == [t |-> "image", rt |-> << >>, src |-> src]

\* html_parser.py:477-504: the direct children of el, split at its direct
\* images
RECURSIVE CollectParts(_, _, _, _)
CollectParts(kids, current_text, parts, processed) ==
    IF kids = << >>
    THEN [parts |-> parts \o TextPart(current_text), processed |-> processed]
    ELSE LET child == Head(kids) IN
         IF child.tag = "img"
         THEN CollectParts(Tail(kids), << >>,
                  parts \o TextPart(current_text)
                        \o (IF child.at.id \notin processed /\ child.at.src # 0
                            THEN << ImagePart(child.at.src) >> ELSE << >>),
                  processed \cup {child.at.id})
         ELSE CollectParts(Tail(kids), Append(current_text, child), parts, processed)

\* html_parser.py:509-526: the images of el that were not handled yet
RECURSIVE PutImages(_, _, _)
PutImages(st, imgs, io) ==
    IF imgs = << >> \/ st.raised THEN st
    ELSE LET img == Head(imgs) IN
         IF img.at.id \in st.processed THEN PutImages(st, Tail(imgs), io)
         ELSE LET s1 == [st EXCEPT !.processed = @ \cup {img.at.id}] IN
              PutImages(IF img.at.src # 0 THEN PutResource(s1, img.at.src, io, "image") ELSE s1,
                        Tail(imgs), io)

\* html_parser.py:530-553: the parts become blocks, in order
RECURSIVE PutParts(_, _, _, _)
PutParts(st, parts, create_paragraph, io) ==
    IF parts = << >> \/ st.raised THEN st
    ELSE LET p == Head(parts) IN
         PutParts(IF p.t = "text"
                  THEN IF create_paragraph
                       THEN [st EXCEPT !.blocks = Append(@, TextBlock("paragraph", p.rt))]
                       ELSE st
                  ELSE PutResource(st, p.src, io, "image"),
                  Tail(parts), create_paragraph, io)

\* html_parser.py:454-555.  has: the element holds an image (at any depth).
handle_images_with_split(el, create_paragraph, st, io) ==
    LET Split(imgs, c) ==
            IF imgs = << >> THEN [has |-> FALSE, st |-> st]
            ELSE IF \A k \in 1..Len(c.parts) : c.parts[k].t = "text"
            THEN [has |-> TRUE,
                  st |-> PutImages([st EXCEPT !.processed = c.processed], imgs, io)]
            ELSE [has |-> TRUE,
                  st |-> PutParts([st EXCEPT !.processed = c.processed], c.parts,
                                  create_paragraph, io)]
    IN Split(FindAll(el, {"img"}), CollectParts(el.kids, << >>, << >>, st.processed))

\* html_parser.py:118  the alt texts (lower case) that mark a checkbox image,
\* and html_parser.py:120 those that hold "check"
AltIsToDo(alt) == alt \in {"to do", "todo", "checked", "unchecked"}
AltHasCheck(alt) == alt \in {"checked", "unchecked"}

Checkboxes(el) == SelectSeq(FindAll(el, {"input"}), LAMBDA n : n.at.checkbox)

\* html_parser.py:101-136: is the list item a to-do, and is it checked
ListToDo(li) ==
    LET Detect(cb, imgs, text) ==
            IF cb # << >> THEN [is_todo |-> TRUE, checked |-> cb[1].at.checked]
            ELSE IF li.at.datatag THEN [is_todo |-> TRUE, checked |-> FALSE]
            ELSE IF imgs # << >> /\ AltIsToDo(imgs[1].at.alt)
                 THEN [is_todo |-> TRUE, checked |-> AltHasCheck(imgs[1].at.alt)]
            ELSE IF StartsChecked(text) THEN [is_todo |-> TRUE, checked |-> TRUE]
            ELSE IF StartsUnchecked(text) THEN [is_todo |-> TRUE, checked |-> FALSE]
            ELSE IF MdMatch(text, "MDX") THEN [is_todo |-> TRUE, checked |-> TRUE]
            ELSE IF MdMatch(text, "MDO") THEN [is_todo |-> TRUE, checked |-> FALSE]
            ELSE [is_todo |-> FALSE, checked |-> FALSE]
    IN Detect(Checkboxes(li), FindAll(li, {"img"}), get_text_sep(li))

\* html_parser.py:69, 596  max_depth
MaxListDepth == 3

\* html_parser.py:157  if depth < max_depth - 1  (and a variant without
\* the limit)
MayDescend_always(depth) == TRUE

MayDescend(depth) == depth < MaxListDepth - 1

\* html_parser.py:66-179.  The items of one list; the images found on the
\* way are added to the converter's blocks at once (blocks_ref), and an item
\* that holds an image gives no item block.
RECURSIVE process_list_recursive(_, _, _, _)
RECURSIVE ListItems(_, _, _, _, _, _)
process_list_recursive(list_el, depth, st, io) ==
    ListItems(FindDirect(list_el, {"li"}),
              IF list_el.tag = "ol" THEN "numbered_list_item" ELSE "bulleted_list_item",
              depth, << >>, st, io)

ListItems(lis, block_type, depth, items, st, io) ==
    IF lis = << >> THEN [items |-> items, st |-> st]
    ELSE LET li == Head(lis)
             Item(td, rt) == IF td.is_todo THEN ToDoBlock(rt, td.checked)
                             ELSE TextBlock(block_type, rt)
             Sub(nested, s1) == IF MayDescend(depth) /\ nested # << >>
                                THEN process_list_recursive(nested[1], depth + 1, s1, io)
                                ELSE [items |-> << >>, st |-> s1]
             Rest(item, sub) ==
                 IF sub.st.raised THEN [items |-> items, st |-> sub.st]
                 ELSE ListItems(Tail(lis), block_type, depth,
                                Append(items, [item EXCEPT !.children = sub.items]),
                                sub.st, io)
             After(im) ==
                 IF im.st.raised THEN [items |-> items, st |-> im.st]
                 ELSE IF im.has THEN ListItems(Tail(lis), block_type, depth, items, im.st, io)
                 ELSE Rest(Item(ListToDo(li), build_rich_text(li, TRUE)),
                           Sub(FindDirect(li, {"ul", "ol"}), im.st))
         IN After(handle_images_with_split(li, FALSE, st, io))

\* html_parser.py:612-630: is the paragraph a to-do, and is it checked
ParagraphToDo(el) ==
    LET Detect(txt) ==
            IF StartsChecked(txt) THEN [is_todo |-> TRUE, checked |-> TRUE]
            ELSE IF StartsUnchecked(txt) THEN [is_todo |-> TRUE, checked |-> FALSE]
            ELSE IF MdMatch(txt, "MDX") THEN [is_todo |-> TRUE, checked |-> TRUE]
            ELSE IF MdMatch(txt, "MDO") THEN [is_todo |-> TRUE, checked |-> FALSE]
            ELSE [is_todo |-> el.at.datatag, checked |-> FALSE]
    IN Detect(get_text_sep(el))

\* html_parser.py:639-644: the rows of a table, each the texts of its cells
TableRows(el) ==
    LET trs == FindDirect(el, {"tr"}) IN
    [r \in 1..Len(trs) |->
        LET cells == FindDirect(trs[r], {"td", "th"}) IN
        [c \in 1..Len(cells) |-> get_text_sep(cells[c])]]

AddBlock(st, b) == [st EXCEPT !.blocks = Append(@, b)]

\* html_parser.py:589-591  the walk starts the conversion of a list only when
\* the list's parent is not a list item  (and a variant that starts it for
\* every list)
StartsList_always(parent) == TRUE

StartsList(parent) == parent # "li"

\* html_parser.py:567-674: one element of the walk over body.descendants
HandleElement(d, st, io) ==
    LET el == d.n
        name == el.tag
    IN IF name \in {"h1", "h2", "h3"}
       THEN AddBlock(st, TextBlock(IF name = "h1" THEN "heading_1"
                                   ELSE IF name = "h2" THEN "heading_2" ELSE "heading_3",
                                   build_rich_text(el, FALSE)))
       ELSE IF name = "blockquote"
       THEN AddBlock(st, TextBlock("quote", build_rich_text(el, FALSE)))
       ELSE IF name = "pre"
       THEN LET CodeText(code_el) ==
                    IF code_el # << >> THEN get_text(code_el[1]) ELSE get_text(el)
            IN AddBlock(st, TextBlock("code",
                                      << Span(Strip(CodeText(FindAll(el, {"code"}))), NoLink, {}) >>))
       ELSE IF name \in {"ul", "ol"}
       THEN IF ~StartsList(d.parent) THEN st
            ELSE LET Extend(r) == IF r.st.raised THEN r.st
                                  ELSE [r.st EXCEPT !.blocks = @ \o r.items]
                 IN Extend(process_list_recursive(el, 0, st, io))
       ELSE IF name = "p"
       THEN LET Para(im, td, rt) ==
                    IF im.has THEN im.st
                    ELSE IF td.is_todo THEN AddBlock(st, ToDoBlock(rt, td.checked))
                    ELSE IF HasText(el) THEN AddBlock(st, TextBlock("paragraph", rt))
                    ELSE st
            IN Para(handle_images_with_split(el, TRUE, st, io), ParagraphToDo(el),
                    build_rich_text(el, FALSE))
       ELSE IF name = "table"
       THEN LET Keep(rows) == IF rows # << >> THEN [st EXCEPT !.tables = Append(@, rows)] ELSE st
            IN Keep(TableRows(el))
       ELSE IF name = "img"
       THEN IF el.at.id \in st.processed THEN st
            ELSE LET s1 == [st EXCEPT !.processed = @ \cup {el.at.id}] IN
                 IF el.at.src # 0 THEN PutResource(s1, el.at.src, io, "image") ELSE s1
       ELSE IF name = "a"
       THEN IF el.at.href.k = "res" THEN PutResource(st, el.at.href.pg, io, "file") ELSE st
       ELSE st

\* html_parser.py:677-684: a document that gave no block but has text
\* becomes one paragraph of all its text
Fallback(body, st) ==
    IF st.blocks = << >> /\ HasText(body)
    THEN AddBlock(st, TextBlock("paragraph", << Span(get_text_sep(body), NoLink, {}) >>))
    ELSE st

\* html_parser.py:687  the number of blocks returned at most
MaxBlocks == 150

\* html_parser.py:687  blocks[:150]  (and a variant that returns them all)
CutBlocks_all(blocks) == blocks

CutBlocks(blocks) ==
    SubSeq(blocks, 1, IF Len(blocks) < MaxBlocks THEN Len(blocks) ELSE MaxBlocks)

-----------------------------------------------------------------------------
(* content_mapper.py: _validate_blocks *)

\* content_mapper.py:245-246  text_content[i:i+2000] for i in range(0, len, 2000)
RECURSIVE Chunks(_)
Chunks(t) ==
    IF t = << >> THEN << >> ELSE << Take(t, SpanLimit) >> \o Chunks(Drop(t, SpanLimit))

\* content_mapper.py:242-250: the spans that replace a span that is too long;
\* they carry its link and nothing else of it
SplitSpan(rt) ==
    LET Spans(cs) == [k \in 1..Len(cs) |-> Span(cs[k], rt.link, {})]
    IN Spans(Chunks(rt.content))

\* content_mapper.py:236-254
RECURSIVE NewSpans(_)
NewSpans(rich_text) ==
    IF rich_text = << >> THEN << >>
    ELSE (IF TLen(Head(rich_text).content) > SpanLimit
          THEN SplitSpan(Head(rich_text)) ELSE << Head(rich_text) >>)
         \o NewSpans(Tail(rich_text))

RECURSIVE TotalLength(_)
TotalLength(rich_text) ==
    IF rich_text = << >> THEN 0
    ELSE TLen(Head(rich_text).content) + TotalLength(Tail(rich_text))

\* content_mapper.py:267-294: the spans are dealt to new blocks, a new one
\* whenever the next span would take the block over the limit
RECURSIVE SplitBlock(_, _, _, _)
SplitBlock(block_type, rich_text, current_block_rt, current_length) ==
    IF rich_text = << >>
    THEN IF current_block_rt # << >> THEN << TextBlock(block_type, current_block_rt) >> ELSE << >>
    ELSE LET rt == Head(rich_text)
             rt_length == TLen(rt.content)
         IN IF current_length + rt_length > SpanLimit /\ current_block_rt # << >>
            THEN << TextBlock(block_type, current_block_rt) >>
                 \o SplitBlock(block_type, Tail(rich_text), << rt >>, rt_length)
            ELSE SplitBlock(block_type, Tail(rich_text), Append(current_block_rt, rt),
                            current_length + rt_length)

\* content_mapper.py:226-297: what one block becomes.  A block without spans
\* (an image, a file) is left out.  (And a variant that never makes more
\* than one block of a block.)
ValidateBlock_nosplit(block) ==
    IF NewSpans(block.rich_text) = << >> THEN << >>
    ELSE << [block EXCEPT !.rich_text = NewSpans(block.rich_text)] >>

ValidateBlock(block) ==
    LET Valid(new_rich_text) ==
            IF new_rich_text = << >> THEN << >>
            ELSE IF TotalLength(new_rich_text) <= SpanLimit
            THEN << [block EXCEPT !.rich_text = new_rich_text] >>
            ELSE SplitBlock(block.type, new_rich_text, << >>, 0)
    IN Valid(NewSpans(block.rich_text))

\* content_mapper.py:218-299
_validate_blocks(blocks) ==
    ConcatAll([k \in 1..Len(blocks) |-> ValidateBlock(blocks[k])])

-----------------------------------------------------------------------------
(* Pass 2: run_link_resolution *)

\* cli.py:479-510.  Later pages overwrite earlier ones under the same key.
MapPut(m, k, v) == [x \in (DOMAIN m) \cup {k} |-> IF x = k THEN v ELSE m[x]]

RECURSIVE BuildFrom(_, _)
BuildFrom(pages, m) ==
    IF pages = << >> THEN m
    ELSE LET p == Head(pages) IN
         IF p.prop.type \in {"rich_text", "url"} /\ NonEmpty(p.prop.val)
         THEN BuildFrom(Tail(pages), MapPut(m, NormalizeId(p.prop.val), p.id))
         ELSE BuildFrom(Tail(pages), m)

_build_page_mapping(pages) == BuildFrom(pages, << >>)

\* cli.py:525-550.  fetch_blocks stops below depth 3: blocks of level 0..3.
MaxFetchDepth == 3

_get_all_blocks(blocks) == { k \in 1..Len(blocks) : blocks[k].level <= MaxFetchDepth }

\* cli.py:606
NotionUrl(id) == Href("notion", EmptyId, id)

\* cli.py:587-619: one span.  [rt |-> the span to send, hit |-> resolved]
\* (a variant that looks the identifier up as the link spells it, and one
\* that clears the marker of every marked link)
ResolveSpan_raw(rt, page_mapping, marker) ==
    IF Contains(rt.content, marker) /\ rt.link.k # "none"
    THEN LET x == extract_page_id_from_link(rt.link) IN
         IF x.ok /\ NonEmpty(x.id) /\ x.id \in DOMAIN page_mapping
         THEN [rt  |-> Span(Replace(rt.content, marker), NotionUrl(page_mapping[x.id]), rt.ann),
               hit |-> TRUE]
         ELSE [rt |-> rt, hit |-> FALSE]
    ELSE [rt |-> rt, hit |-> FALSE]

ResolveSpan_any(rt, page_mapping, marker) ==
    IF Contains(rt.content, marker) /\ rt.link.k # "none"
    THEN [rt |-> Span(Replace(rt.content, marker), rt.link, rt.ann), hit |-> TRUE]
    ELSE [rt |-> rt, hit |-> FALSE]

\* (and a variant that reports the link as resolved and leaves the span as
\* it was)
ResolveSpan_same(rt, page_mapping, marker) ==
    IF Contains(rt.content, marker) /\ rt.link.k # "none"
    THEN LET x == extract_page_id_from_link(rt.link) IN
         [rt |-> rt, hit |-> x.ok /\ NonEmpty(x.id) /\ NormalizeId(x.id) \in DOMAIN page_mapping]
    ELSE [rt |-> rt, hit |-> FALSE]

ResolveSpan(rt, page_mapping, marker) ==
    IF Contains(rt.content, marker) /\ rt.link.k # "none"
    THEN LET x == extract_page_id_from_link(rt.link) IN
         IF x.ok /\ NonEmpty(x.id) /\ NormalizeId(x.id) \in DOMAIN page_mapping
         THEN [rt  |-> Span(Replace(rt.content, marker),
                            NotionUrl(page_mapping[NormalizeId(x.id)]), rt.ann),
               hit |-> TRUE]
         ELSE [rt |-> rt, hit |-> FALSE]
    ELSE [rt |-> rt, hit |-> FALSE]

\* cli.py:584-619: one block's rich_text
NewRichText(rich_text, page_mapping, marker) ==
    [k \in 1..Len(rich_text) |-> ResolveSpan(rich_text[k], page_mapping, marker).rt]

Hits(rich_text, page_mapping, marker) ==
    { k \in 1..Len(rich_text) : ResolveSpan(rich_text[k], page_mapping, marker).hit }


\* The sink's block tree: block k has children when the next block lies one
\* level deeper.
HasChildren(blocks, k) == k < Len(blocks) /\ blocks[k + 1].level = blocks[k].level + 1

\* cli.py:529-547: one get_block_children request per parent that is read
GetCalls(pg, blocks) ==
    LET F[k \in 0..Len(blocks)] ==
            IF k = 0 THEN << Call("get_block_children", pg, 0, << >>, TRUE) >>
            ELSE IF blocks[k].level < MaxFetchDepth /\ HasChildren(blocks, k)
                 THEN Append(F[k - 1], Call("get_block_children", pg, k, << >>, TRUE))
                 ELSE F[k - 1]
    IN F[Len(blocks)]

\* cli.py:569-629: the blocks of one page that get a block update
NeedsUpdate(blocks, page_mapping) ==
    { k \in _get_all_blocks(blocks) :
        Hits(blocks[k].rich_text, page_mapping, INCOMPLETE_LINK_MARKER) # {} }

\* cli.py:621-629: the update_block requests of one page, in block order
UpdateCalls(pg, blocks, page_mapping, failed) ==
    LET need == NeedsUpdate(blocks, page_mapping)
        F[k \in 0..Len(blocks)] ==
            IF k = 0 THEN << >>
            ELSE IF k \in need
                 THEN Append(F[k - 1],
                        Call("update_block", pg, k,
                             NewRichText(blocks[k].rich_text, page_mapping,
                                         INCOMPLETE_LINK_MARKER),
                             k \notin failed))
                 ELSE F[k - 1]
    IN F[Len(blocks)]

\* cli.py:567, 615, 631: the number of links the page reports as resolved
RECURSIVE SumHits(_, _, _)
SumHits(blocks, ks, page_mapping) ==
    IF ks = {} THEN 0
    ELSE LET k == CHOOSE x \in ks : TRUE IN
         Cardinality(Hits(blocks[k].rich_text, page_mapping, INCOMPLETE_LINK_MARKER))
         + SumHits(blocks, ks \ {k}, page_mapping)

\* The sink's update_block: the block's rich_text becomes the one sent.
SinkUpdate(blocks, page_mapping, failed) ==
    [k \in 1..Len(blocks) |->
        IF k \in NeedsUpdate(blocks, page_mapping) /\ k \notin failed
        THEN [blocks[k] EXCEPT !.rich_text =
                 NewRichText(blocks[k].rich_text, page_mapping, INCOMPLETE_LINK_MARKER)]
        ELSE blocks[k]]

LR0 == [pages |-> << >>, mapping |-> << >>, i |-> 1,
        resolved_count |-> 0, error_count |-> 0, skipped_count |-> 0]

\* cli.py:117-140  run: --resolve-links runs pass 2 alone
run ==
    /\ pc = "start"
    /\ pc' = IF args.resolve_links THEN "lr_start" ELSE "resolve_site"
    /\ UNCHANGED <<args, db, calls, lr, snap>>
    /\ UNCHANGED <<onenote, state, mig, mp>>

\* cli.py:367-416, 459-477: the database is queried, the mapping built.
\* Without --database-id, or when the query fails, the process exits.
LRStart ==
    /\ pc = "lr_start"
    /\ IF ~args.database_id
       THEN pc' = "exit" /\ UNCHANGED <<calls, lr, snap>>
       ELSE \E ok \in BOOLEAN :
              /\ calls' = Append(calls, Call("query_database", 0, 0, << >>, ok))
              /\ IF ok
                 THEN /\ lr' = [LR0 EXCEPT
                                  !.pages = [k \in 1..Len(db) |-> [id |-> db[k].id, prop |-> db[k].prop]],
                                  !.mapping = _build_page_mapping(db)]
                      /\ snap' = db
                      /\ pc' = "lr_pages"
                 ELSE pc' = "exit" /\ UNCHANGED <<lr, snap>>
    /\ UNCHANGED <<args, db>>
    /\ UNCHANGED <<onenote, state, mig, mp>>

\* cli.py:622  if needs_update and not self.args.dry_run: a changed block is
\* sent only when the run is not a dry run  (and a variant that sends it in
\* any case)
SendsUpdates_always(dry_run) == TRUE

SendsUpdates(dry_run) == ~dry_run

\* cli.py:423-449: one page of the loop: its blocks are read, its links
\* resolved, the changed blocks sent.  A failed read counts as an error of
\* the page; a failed update is logged and the loop goes on.
LRPage ==
    /\ pc = "lr_pages"
    /\ lr.i <= Len(lr.pages)
    /\ LET pg == lr.pages[lr.i].id
           blocks == db[pg].blocks
       IN \E getOk \in BOOLEAN :
            IF ~getOk
            THEN /\ calls' = Append(calls, Call("get_block_children", pg, 0, << >>, FALSE))
                 /\ lr' = [lr EXCEPT !.i = @ + 1, !.error_count = @ + 1]
                 /\ db' = db
            ELSE \E failed \in SUBSET NeedsUpdate(blocks, lr.mapping) :
                   LET updated == SumHits(blocks, _get_all_blocks(blocks), lr.mapping) IN
                   /\ calls' = calls \o GetCalls(pg, blocks) \o
                                 (IF SendsUpdates(args.dry_run)
                                  THEN UpdateCalls(pg, blocks, lr.mapping, failed)
                                  ELSE << >>)
                   /\ db' = IF SendsUpdates(args.dry_run)
                            THEN [db EXCEPT ![pg].blocks = SinkUpdate(blocks, lr.mapping, failed)]
                            ELSE db
                   /\ lr' = [lr EXCEPT !.i = @ + 1,
                                       !.resolved_count = @ + updated,
                                       !.skipped_count = IF updated > 0 THEN @ ELSE @ + 1]
    /\ UNCHANGED <<args, pc, snap>>
    /\ UNCHANGED <<onenote, state, mig, mp>>

\* cli.py:451-457: the summary
LRDone ==
    /\ pc = "lr_pages"
    /\ lr.i > Len(lr.pages)
    /\ pc' = "done"
    /\ UNCHANGED <<args, db, calls, lr, snap>>
    /\ UNCHANGED <<onenote, state, mig, mp>>

-----------------------------------------------------------------------------
(* Pass 1: the source, the state store, the import of one page *)

\* A source page (its identifier, its markup), a section, a notebook.
SPage(id, html) == [id |-> id, html |-> html]

\* state_manager.py:87-89  f"{site_id}:{notebook_id}:{section_id}:{page_id}"
generate_page_key(site_id, notebook_id, section_id, page_id) ==
    << site_id, notebook_id, section_id, page_id >>

\* state_manager.py:92-94  md5 of the content: equal contents, equal checksums
calculate_checksum(content) == [md5 |-> content]

\* state_manager.py:46-48  None when the key has no entry
get_page_state(st, key) ==
    IF key \in DOMAIN st THEN [found |-> TRUE, checksum |-> st[key].checksum]
    ELSE [found |-> FALSE, checksum |-> 0]

\* state_manager.py:63-69  (and a variant that never finds a page unchanged)
is_page_unchanged_never(st, key, current_checksum) == FALSE

is_page_unchanged(st, key, current_checksum) ==
    IF ~get_page_state(st, key).found THEN FALSE
    ELSE get_page_state(st, key).checksum = current_checksum

\* cli.py:336 calls content_mapper.should_skip_page, which the sources do
\* not hold.  Here: the page's markup is fetched; when that works, the page is
\* skipped if the state store holds the markup's checksum under the page's
\* key.
should_skip_page(st, key, page, fetched) ==
    fetched /\ is_page_unchanged(st, key, calculate_checksum(page.html))

\* The sink keeps a block's children right after it, one level deeper.
RECURSIVE Flatten(_, _)
Flatten(blocks, level) ==
    ConcatAll([k \in 1..Len(blocks) |->
                  << Block(blocks[k].type, blocks[k].rich_text, level) >>
                  \o Flatten(blocks[k].children, level + 1)])

\* html_parser.py:690-737: the table block of append_table; a row's cells are
\* its spans, each cut at the limit
TableBlock(rows) ==
    LET width == LET L == { Len(rows[r]) : r \in 1..Len(rows) } IN
                 CHOOSE w \in L : \A x \in L : x <= w
    IN NBlock("table", << >>, "absent",
              [r \in 1..Len(rows) |->
                  NBlock("table_row",
                         [c \in 1..width |->
                             Span(IF c <= Len(rows[r]) THEN Take(rows[r][c], SpanLimit) ELSE << >>,
                                  NoLink, {})],
                         "absent", << >>, 0)],
              0)

\* content_mapper.py:176-184: the OneNotePageId property the page is given,
\* when the database has one of a type the mapper knows
PageProperty(schema, page_id, dbok) ==
    IF dbok /\ schema \in {"rich_text", "url"}
    THEN [type |-> schema, val |-> page_id]
    ELSE [type |-> "none", val |-> EmptyId]

\* notion_client.py:129-147: the first page whose property equals the value,
\* 0 when there is none or the queries fail
find_page_by_property(d, property_value, ok) ==
    LET hits == { k \in 1..Len(d) :
                    d[k].prop.type \in {"rich_text", "title", "url"}
                    /\ d[k].prop.val = property_value }
    IN IF ok /\ hits # {} THEN CHOOSE k \in hits : \A x \in hits : k <= x ELSE 0

\* notion_client.py:122  blocks per append request
AppendBatch == 50

\* map_page_to_notion's locals
MP0 == [html |-> El("body", << >>), i |-> 1, cs |-> CS0, blocks |-> << >>, tables |-> << >>,
        validated |-> << >>, handed |-> FALSE, sent |-> 0, t |-> 1,
        notion_page_id |-> 0, result |-> "none"]

\* The run's position in the source and its log of pages: for each page
\* handled, its key, its place among the pages of its section, how it ended,
\* and the number of sink calls before and after it; the count that the
\* caller of map_page_to_notion keeps of its results; and the failure the run
\* has reported before it exits ("none", "site", "notebooks").
MIG0 == [nb |-> 1, sec |-> 1, pg |-> 1, sections |-> << >>, pages |-> << >>,
         fetched |-> FALSE, c0 |-> 0, log |-> << >>,
         success_count |-> 0, error_count |-> 0, failure |-> "none"]

CurPage == mig.pages[mig.pg]
CurKey == generate_page_key("site", mig.nb, mig.sec, CurPage.id)

PageEnds(outcome, fetched, c0) ==
    [mig EXCEPT !.pg = @ + 1,
                !.fetched = FALSE,
                !.log = Append(@, [key |-> CurKey, page |-> CurPage, outcome |-> outcome,
                                   pos |-> mig.pg, of |-> Len(mig.pages),
                                   fetched |-> fetched, c0 |-> c0, c1 |-> Len(calls')])]

\* The upload slots the sink has created so far
SlotsCreated(cs) == Cardinality({ n \in 1..Len(cs) : cs[n].op = "upload" /\ cs[n].ok })

\* cli.py:323-355  _process_page: the checks before the import
ProcessPage ==
    /\ pc = "page"
    /\ mig.pg <= Len(mig.pages)
    /\ UNCHANGED <<args, db, calls, lr, snap, onenote, state>>
    /\ \E fetched \in (IF args.database_id /\ args.resume THEN BOOLEAN ELSE {FALSE}) :
         IF ~args.database_id
         THEN mig' = PageEnds("no_database", FALSE, Len(calls)) /\ UNCHANGED <<pc, mp>>
         ELSE IF args.resume /\ should_skip_page(state, CurKey, CurPage, fetched)
         THEN mig' = PageEnds("skipped", fetched, Len(calls)) /\ UNCHANGED <<pc, mp>>
         ELSE IF args.dry_run
         THEN mig' = PageEnds("dry_run", fetched, Len(calls)) /\ UNCHANGED <<pc, mp>>
         ELSE /\ mig' = [mig EXCEPT !.fetched = fetched, !.c0 = Len(calls)]
              /\ mp' = [MP0 EXCEPT !.cs.nup = SlotsCreated(calls)]
              /\ pc' = "map_fetch"

\* content_mapper.py:58-62: the page's markup is loaded; without it the page
\* is given up
MapFetch ==
    /\ pc = "map_fetch"
    /\ \E ok \in BOOLEAN :
         IF ok THEN mp' = [mp EXCEPT !.html = CurPage.html] /\ pc' = "map_convert"
         ELSE mp' = [mp EXCEPT !.result = "failed"] /\ pc' = "map_return"
    /\ UNCHANGED <<args, db, calls, lr, snap, onenote, state, mig>>

\* The resources a markup names, and the ways their transfer can go
Resources(body) ==
    LET Named(imgs, as) == { imgs[k].at.src : k \in 1..Len(imgs) }
                           \cup { as[k].at.href.pg : k \in 1..Len(as) }
    IN Named(FindAll(body, {"img"}), FindAll(body, {"a"}))

ResChoices ==
    { Res("fail", 0, "ok", "ok"),
      Res("ok", MaxUploadSize + 1, "ok", "ok"),
      Res("ok", MaxUploadSize, "ok", "ok"),
      Res("ok", 1, "status", "ok"),
      Res("ok", 1, "raise", "ok"),
      Res("ok", 1, "ok", "status"),
      Res("ok", 1, "ok", "raise") }

IoChoices(body) == [Resources(body) \ {0} -> ResChoices]

\* html_parser.py:567-674: the walk handles the next node of the markup; the
\* images and files it finds are uploaded at once.  content_mapper.py:126-128:
\* an exception that leaves the converter gives the page up.
ConvertStep ==
    /\ pc = "map_convert"
    /\ mp.i <= Len(Descendants(mp.html))
    /\ \E io \in IoChoices(mp.html) :
         LET Step(cs) == [mp EXCEPT !.cs = cs,
                                    !.i = IF cs.raised THEN @ ELSE @ + 1,
                                    !.result = IF cs.raised THEN "failed" ELSE @]
         IN mp' = Step(HandleElement(Descendants(mp.html)[mp.i],
                                     [mp.cs EXCEPT !.ups = << >>], io))
    /\ calls' = calls \o mp'.cs.ups
    /\ pc' = IF mp'.cs.raised THEN "map_return" ELSE pc
    /\ UNCHANGED <<args, db, lr, snap, onenote, state, mig>>

\* html_parser.py:676-687, content_mapper.py:65-70: after the walk the
\* fallback, and the cut of the block list
ConvertEnd ==
    /\ pc = "map_convert"
    /\ mp.i > Len(Descendants(mp.html))
    /\ LET End(cs) == [mp EXCEPT !.cs = cs, !.blocks = CutBlocks(cs.blocks),
                                 !.tables = cs.tables]
       IN mp' = End(Fallback(mp.html, mp.cs))
    /\ pc' = "map_find"
    /\ UNCHANGED <<args, db, calls, lr, snap, onenote, state, mig>>

\* content_mapper.py:94-100: on the update path the page's properties are
\* updated and nothing is done to the children it has  (and a variant that
\* clears them)
UpdatedChildren_cleared(blocks) == << >>

UpdatedChildren(blocks) == blocks

\* content_mapper.py:75-110: the properties are built, the page is looked up
\* by its source identifier and updated, or created when it was not found.
\* A failed update or create gives the page up.
MapFind ==
    /\ pc = "map_find"
    /\ \E dbok \in BOOLEAN, findok \in BOOLEAN, ok \in BOOLEAN :
         LET prop == PageProperty(onenote.schema, CurPage.id, dbok)
             existing_page_id == find_page_by_property(db, CurPage.id, findok)
             notion_page_id == IF existing_page_id # 0 THEN existing_page_id ELSE Len(db) + 1
         IN /\ calls' = Append(calls,
                           Call(IF existing_page_id # 0 THEN "update_page" ELSE "create_page",
                                notion_page_id, 0, << >>, ok))
            /\ IF ~ok
               THEN mp' = [mp EXCEPT !.result = "failed"] /\ pc' = "map_return" /\ db' = db
               ELSE /\ mp' = [mp EXCEPT !.notion_page_id = notion_page_id]
                    /\ pc' = "map_validate"
                    /\ db' = IF existing_page_id # 0
                             THEN [db EXCEPT ![existing_page_id].prop =
                                                IF prop.type # "none" THEN prop ELSE @,
                                             ![existing_page_id].blocks = UpdatedChildren(@)]
                             ELSE Append(db, [id |-> notion_page_id, prop |-> prop, blocks |-> << >>])
    /\ UNCHANGED <<args, lr, snap, onenote, state, mig>>

\* content_mapper.py:112-116: the blocks are validated and handed to
\* append_blocks
MapValidate ==
    /\ pc = "map_validate"
    /\ IF mp.blocks # << >>
       THEN /\ mp' = [mp EXCEPT !.validated = _validate_blocks(mp.blocks), !.handed = TRUE]
            /\ pc' = IF mp'.validated # << >> THEN "map_append" ELSE "map_tables"
       ELSE pc' = "map_tables" /\ mp' = mp
    /\ UNCHANGED <<args, db, calls, lr, snap, onenote, state, mig>>

\* notion_client.py:122-123  children[i:i+50]: the index of the last block of
\* the batch that starts after the first i blocks of n  (and a variant that
\* sends all that is left in one request)
BatchEnd_rest(i, n) == n

BatchEnd(i, n) == IF i + AppendBatch < n THEN i + AppendBatch ELSE n

\* notion_client.py:116-127: one request of append_blocks; a refused request
\* gives the page up, what was appended before stays
MapAppendBatch ==
    /\ pc = "map_append"
    /\ mp.sent < Len(mp.validated)
    /\ LET last == BatchEnd(mp.sent, Len(mp.validated))
           batch == SubSeq(mp.validated, mp.sent + 1, last)
       IN \E ok \in BOOLEAN :
            /\ calls' = Append(calls, Call("append_children", mp.notion_page_id, 0, batch, ok))
            /\ IF ok
               THEN /\ db' = [db EXCEPT ![mp.notion_page_id].blocks = @ \o Flatten(batch, 0)]
                    /\ mp' = [mp EXCEPT !.sent = last]
                    /\ pc' = IF last < Len(mp.validated) THEN "map_append" ELSE "map_tables"
               ELSE db' = db /\ mp' = [mp EXCEPT !.result = "failed"] /\ pc' = "map_return"
    /\ UNCHANGED <<args, lr, snap, onenote, state, mig>>

\* content_mapper.py:118-124, html_parser.py:690-737: each table is appended
\* as one table block; a refused table is logged and left out
MapTables ==
    /\ pc = "map_tables"
    /\ IF mp.t <= Len(mp.tables)
       THEN \E ok \in BOOLEAN :
              /\ calls' = Append(calls, Call("append_children", mp.notion_page_id, 0,
                                             << TableBlock(mp.tables[mp.t]) >>, ok))
              /\ db' = IF ok
                       THEN [db EXCEPT ![mp.notion_page_id].blocks =
                                          @ \o Flatten(<< TableBlock(mp.tables[mp.t]) >>, 0)]
                       ELSE db
              /\ mp' = [mp EXCEPT !.t = @ + 1]
              /\ pc' = pc
       ELSE /\ mp' = [mp EXCEPT !.result = "imported"]
            /\ pc' = "map_return"
            /\ UNCHANGED <<db, calls>>
    /\ UNCHANGED <<args, lr, snap, onenote, state, mig>>

\* content_mapper.py:359-362  the caller's count of a result: a page id
\* counts as a success, None as an error
Count(m, result) ==
    IF result = "imported" THEN [m EXCEPT !.success_count = @ + 1]
    ELSE [m EXCEPT !.error_count = @ + 1]

\* content_mapper.py:126-128, cli.py:308-310: map_page_to_notion returns
\* None for a page that failed, and the loop over the pages goes on  (and a
\* variant in which a failed page ends the run)
NextAfterPage_abort(result) == IF result = "failed" THEN "exit" ELSE "page"

NextAfterPage(result) == "page"

\* cli.py:348-355: map_page_to_notion returns, the page is done
MapReturn ==
    /\ pc = "map_return"
    /\ calls' = calls
    /\ mig' = Count(PageEnds(mp.result, mig.fetched, mig.c0), mp.result)
    /\ pc' = NextAfterPage(mp.result)
    /\ UNCHANGED <<args, db, lr, snap, onenote, state, mp>>

-----------------------------------------------------------------------------
(* Pass 1: run_migration *)

\* cli.py:162-170  _resolve_site: a site that cannot be resolved ends the run
ResolveSite ==
    /\ pc = "resolve_site"
    /\ \E ok \in BOOLEAN :
         IF ok THEN pc' = "find_notebooks" /\ mig' = mig
         ELSE pc' = "exit" /\ mig' = [mig EXCEPT !.failure = "site"]
    /\ UNCHANGED <<args, db, calls, lr, snap, onenote, state, mp>>

\* cli.py:172-200  _find_notebooks: a failed listing, or no notebook, ends
\* the run
FindNotebooks ==
    /\ pc = "find_notebooks"
    /\ \E ok \in BOOLEAN :
         IF ok /\ onenote.notebooks # << >>
         THEN pc' = "notebook" /\ mig' = [mig EXCEPT !.nb = 1]
         ELSE pc' = "exit" /\ mig' = [mig EXCEPT !.failure = "notebooks"]
    /\ UNCHANGED <<args, db, calls, lr, snap, onenote, state, mp>>

\* cli.py:150-153, 236-262  one notebook of the loop: its sections are
\* listed (a failed listing gives none)
ProcessNotebook ==
    /\ pc = "notebook"
    /\ mig.nb <= Len(onenote.notebooks)
    /\ \E ok \in BOOLEAN :
         mig' = [mig EXCEPT !.sections = IF ok THEN onenote.notebooks[mig.nb] ELSE << >>,
                            !.sec = 1]
    /\ pc' = "section"
    /\ UNCHANGED <<args, db, calls, lr, snap, onenote, state, mp>>

\* cli.py:290-310  one section of the notebook: its pages are listed (a
\* failed listing gives none); after the last section the next notebook
SectionStep ==
    /\ pc = "section"
    /\ IF mig.sec <= Len(mig.sections)
       THEN \E ok \in BOOLEAN :
              /\ mig' = [mig EXCEPT !.pages = IF ok THEN mig.sections[mig.sec] ELSE << >>,
                                    !.pg = 1]
              /\ pc' = "page"
       ELSE mig' = [mig EXCEPT !.nb = @ + 1] /\ pc' = "notebook"
    /\ UNCHANGED <<args, db, calls, lr, snap, onenote, state, mp>>

\* cli.py:308-310  after the last page of the section the next section
PagesDone ==
    /\ pc = "page"
    /\ mig.pg > Len(mig.pages)
    /\ mig' = [mig EXCEPT !.sec = @ + 1]
    /\ pc' = "section"
    /\ UNCHANGED <<args, db, calls, lr, snap, onenote, state, mp>>

\* cli.py:155-160  after the last notebook: pass 2, when a database is given
\* and the run is not a dry run  (and a variant that does not wait for the
\* last notebook)
AfterNotebooks_early(nb) == TRUE

AfterNotebooks(nb) == nb > Len(onenote.notebooks)

StartPass2 ==
    /\ pc = "notebook"
    /\ AfterNotebooks(mig.nb)
    /\ pc' = IF args.database_id /\ ~args.dry_run THEN "lr_start" ELSE "done"
    /\ UNCHANGED <<args, db, calls, lr, snap, onenote, state, mig, mp>>

-----------------------------------------------------------------------------
(* Pass 2 run alone (--resolve-links) over a database as it may be found *)

NDbPages == 2
MaxSpans == 2

hexA == Chunk("hex", 1, FALSE)
hexB == Chunk("hex", 2, FALSE)
othX == Chunk("oth", 1, FALSE)
idA == IdStr(FALSE, << hexA >>, FALSE)
idAU == IdStr(TRUE, << Chunk("hex", 1, TRUE) >>, TRUE)
idB == IdStr(FALSE, << hexB >>, FALSE)
idAX == IdStr(FALSE, << hexA, othX >>, FALSE)
idXA == IdStr(FALSE, << othX, hexA >>, FALSE)

TextT == << Seg("T", 0, 5) >>
Marked == Cat(TextT, INCOMPLETE_LINK_MARKER)

SpanChoices ==
    { Span(TextT, NoLink, {}),
      Span(Marked, Href("q", idAU, 0), {"bold"}),
      Span(Marked, Href("path", idA, 0), {}),
      Span(Marked, Href("q", idB, 0), {}),
      Span(Marked, Href("q", idAX, 0), {}),
      Span(Marked, Href("q", idXA, 0), {}),
      Span(Marked, Href("sec", EmptyId, 0), {}),
      Span(Marked, NoLink, {}) }

\* The spans that paragraphs of several spans are made of
CoreSpans ==
    { Span(TextT, NoLink, {}),
      Span(Marked, Href("q", idAU, 0), {"bold"}),
      Span(Marked, Href("path", idA, 0), {}),
      Span(Marked, Href("q", idB, 0), {}),
      Span(Marked, Href("q", idXA, 0), {}),
      Span(Marked, NoLink, {}) }

RECURSIVE SeqsUpTo(_, _)
SeqsUpTo(S, n) ==
    IF n = 0 THEN { << >> }
    ELSE LET r == SeqsUpTo(S, n - 1) IN
         r \cup { Append(q, x) : q \in { y \in r : Len(y) = n - 1 }, x \in S }

PlainBlock(level) == Block("paragraph", << Span(TextT, NoLink, {}) >>, level)

\* A block at `level` below a chain of plain ancestors
ChainSeq(rt, level) ==
    [k \in 1..(level + 1) |->
        IF k = level + 1 THEN Block("bulleted_list_item", rt, level) ELSE PlainBlock(k - 1)]

HolderBlocks ==
    { << >> }
    \cup { << Block("paragraph", rt, 0) >> : rt \in SeqsUpTo(CoreSpans, MaxSpans) \ { << >> } }
    \cup { ChainSeq(<< s >>, l) : s \in SpanChoices, l \in {MaxFetchDepth, MaxFetchDepth + 1} }
    \cup { << Block("image", << >>, 0), Block("to_do", << s >>, 0) >> : s \in SpanChoices }

OtherBlocks == { << >>, << Block("paragraph", << Span(Marked, Href("q", idA, 0), {}) >>, 0) >> }

PropChoices ==
    { [type |-> "rich_text", val |-> idA], [type |-> "url", val |-> idAU],
      [type |-> "rich_text", val |-> idXA], [type |-> "title", val |-> idB],
      [type |-> "rich_text", val |-> EmptyId] }

\* Page 1 holds the blocks under test, page 2 a block or none, further pages
\* none; pages 1 and 2 have any of the properties, so two pages may store the
\* same identifier.
InitDbs ==
    { [k \in 1..NDbPages |->
          IF k = 1 THEN Page(k, p1.type, p1.val, h)
          ELSE IF k = 2 THEN Page(k, p2.type, p2.val, o)
          ELSE Page(k, "rich_text", idB, << >>)] :
        p1 \in PropChoices, p2 \in PropChoices, h \in HolderBlocks, o \in OtherBlocks }

EmptyDb == [k \in 1..NDbPages |-> Page(k, "rich_text", idA, << >>)]

-----------------------------------------------------------------------------
(* Markups for the import of one page *)

\* Text of n characters of the base string s
Txt(s, n) == << Seg(s, 0, n) >>

\* The length of a long text, and of each of two texts that fit a span but
\* not a block together
LongLen == 5000
HalfLen == 1500

\* The number of elements of a long document
BigCount == 200

\* The depth of the deepest nested list
MaxNest == 4

Body(kids) == El("body", kids)
Anchor(href, kids) == Tag("a", [NoAttrs EXCEPT !.href = href], kids)
Img(alt, src, id) == Tag("img", [NoAttrs EXCEPT !.alt = alt, !.src = src, !.id = id], << >>)
Checkbox(checked) == Tag("input", [NoAttrs EXCEPT !.checkbox = TRUE, !.checked = checked], << >>)
ExtLink == Href("ext", EmptyId, 0)

\* Documents of n paragraphs, each with its own text; paragraph fat (if any)
\* has two spans that do not fit one block together.
ParaK(k) == El("p", << Str(<< Seg("T", 10 * k, 5) >>) >>)
FatPara(k) == El("p", << El("b", << Str(Txt("B", HalfLen)) >>), Str(<< Seg("T", 10 * k, HalfLen) >>) >>)
CountDoc(n, fat) == Body([k \in 1..n |-> IF k = fat THEN FatPara(k) ELSE ParaK(k)])
ListDoc(n) == Body(<< El("ul", [k \in 1..n |-> El("li", << Str(<< Seg("T", 10 * k, 5) >>) >>)]) >>)

CountChoices == {0, 1, MaxBlocks - 1, MaxBlocks, MaxBlocks + 1, BigCount}

CountDocs ==
    { CountDoc(n, 0) : n \in CountChoices }
    \cup { CountDoc(n, 1) : n \in CountChoices \ {0} }
    \cup { CountDoc(n, n) : n \in CountChoices \ {0} }
    \cup { ListDoc(n) : n \in {2, 3} }

\* Documents of one element that holds one or two pieces of text
Lens == {5, SpanLimit - 1, SpanLimit, SpanLimit + 1, LongLen}

Inline(kind, n) ==
    IF kind = "plain" THEN << Str(Txt("T", n)) >>
    ELSE IF kind = "bold" THEN << El("b", << Str(Txt("T", n)) >>) >>
    ELSE IF kind = "styled"
    THEN << Tag("span", [NoAttrs EXCEPT !.style = {"font-style:italic"}], << Str(Txt("T", n)) >>) >>
    ELSE IF kind = "ext" THEN << Anchor(ExtLink, << El("b", << Str(Txt("T", n)) >>) >>) >>
    ELSE IF kind = "int" THEN << Anchor(Href("q", idAU, 0), << Str(Txt("T", n)) >>) >>
    ELSE << Str(Txt("T", n)), El("b", << Str(Txt("B", n)) >>) >>

InlineKinds == {"plain", "bold", "styled", "ext", "int", "two"}

Wrap(container, kids) ==
    IF container \in {"p", "h1", "h2", "h3", "blockquote", "pre", "div"} THEN El(container, kids)
    ELSE IF container = "precode" THEN El("pre", << El("code", kids) >>)
    ELSE IF container \in {"ul", "ol"} THEN El(container, << El("li", kids) >>)
    ELSE IF container = "ul2"
    THEN El("ul", << El("li", << Str(Txt("T", 5)), El("ul", << El("li", kids) >>) >>) >>)
    ELSE IF container = "todo" THEN Tag("p", [NoAttrs EXCEPT !.datatag = TRUE], kids)
    ELSE El("table", << El("tr", << El("td", kids), El("td", << Str(Txt("T", 5)) >>) >>) >>)

Containers == {"p", "h1", "h2", "h3", "blockquote", "pre", "precode", "div",
               "ul", "ol", "ul2", "todo", "table"}

SpanDoc(container, kind, n) == Body(<< Wrap(container, Inline(kind, n)) >>)

SpanDocs == { SpanDoc(c, k, n) : c \in Containers, k \in InlineKinds, n \in Lens }

\* Documents of one list item or paragraph with the marks of a to-do: a
\* checkbox input, an image (direct or inside a span), the data-tag, a
\* checkbox prefix of its text.
Prefixed(prefix) ==
    IF prefix = "none" THEN << Str(Txt("T", 5)) >>
    ELSE IF prefix \in {"CBT", "CBF"} THEN << Str(Txt(prefix, 1) \o Txt("T", 5)) >>
    ELSE << Str(Txt(prefix, 3) \o WS(1) \o Txt("T", 5)) >>

ImgKids(img, nested) ==
    IF img = "none" THEN << >>
    ELSE LET i == Img(IF img = "nosrc" THEN "checked" ELSE img, IF img = "nosrc" THEN 0 ELSE 1, 1)
         IN IF nested THEN << El("span", << i >>) >> ELSE << i >>

ToDoKids(cb, img, nested, prefix) ==
    (IF cb = "none" THEN << >> ELSE << Checkbox(cb = "checked") >>)
    \o ImgKids(img, nested) \o Prefixed(prefix)

ToDoDoc(container, cb, img, nested, datatag, prefix) ==
    LET el == Tag(IF container = "li" THEN "li" ELSE "p",
                  [NoAttrs EXCEPT !.datatag = datatag], ToDoKids(cb, img, nested, prefix))
    IN Body(<< IF container = "li" THEN El("ul", << el >>) ELSE el >>)

ToDoDocs ==
    { ToDoDoc(c, cb, img, nested, dt, px) :
        c \in {"li", "p"}, cb \in {"none", "unchecked", "checked"},
        img \in {"none", "checked", "unchecked", "nosrc", "photo"},
        nested \in BOOLEAN, dt \in BOOLEAN, px \in {"none", "CBT", "CBF", "MDX", "MDO"} }

\* Documents of one list nested d levels deep.  The list of each level has
\* two items: the first holds the list of the next level, the second none.
\* The text of item i of level l is five characters of "LVL" from 100 l + 10 i.
LvlText(l, i) == Str(<< Seg("LVL", 100 * l + 10 * i, 5) >>)
LvlOf(r) == r.o \div 100

ListTag(pattern, l) ==
    IF pattern = "ul" THEN "ul" ELSE IF pattern = "ol" THEN "ol"
    ELSE IF l % 2 = 1 THEN "ul" ELSE "ol"

RECURSIVE NestList(_, _, _, _)
NestList(l, d, pattern, todo) ==
    El(ListTag(pattern, l),
       << El("li", (IF todo THEN << Checkbox(FALSE) >> ELSE << >>)
                   \o << LvlText(l, 1) >>
                   \o (IF l < d THEN << NestList(l + 1, d, pattern, todo) >> ELSE << >>)),
          El("li", << LvlText(l, 2) >>) >>)

NestDocs ==
    { Body(<< NestList(1, d, pattern, todo) >>) :
        d \in 1..MaxNest, pattern \in {"ul", "ol", "mixed"}, todo \in BOOLEAN }

\* A list inside a <div> inside a list item: its parent is not the item
WrappedListDoc ==
    Body(<< El("ul", << El("li", << LvlText(1, 1),
                                   El("div", << El("ul", << El("li", << LvlText(2, 1) >>) >>) >>) >>) >>) >>)

\* Documents with resources.  Leaf k of a document (in document order) is
\* the text Key(k), or the image or file link of resource k.
Key(k) == Str(<< Seg("T", 10 * k, 5) >>)
FileLink(src) == Anchor(Href("res", EmptyId, src), << >>)

OrderDocs ==
    { Body(<< El("p", << Key(1) >>), Img("photo", 2, 2), El("p", << Key(3) >>) >>),
      Body(<< El("p", << Key(1), Img("photo", 2, 2), Key(3) >>) >>),
      Body(<< El("ul", << El("li", << Key(1) >>), El("li", << Img("photo", 2, 2) >>),
                          El("li", << Key(3) >>) >>) >>),
      Body(<< El("h1", << Key(1) >>), FileLink(2), El("p", << Key(3) >>) >>),
      Body(<< El("ul", << El("li", << Key(1) >>), El("li", << Key(2) >>) >>),
              El("p", << Key(3) >>) >>),
      Body(<< Img("photo", 1, 1), El("p", << Key(2) >>), FileLink(3) >>) }

\* Documents that name one resource twice: two images, an image twice in a
\* paragraph, two file links
TwiceDocs ==
    { Body(<< Img("photo", 1, 1), El("p", << Key(2) >>), Img("photo", 1, 2) >>),
      Body(<< El("p", << Key(1), Img("photo", 1, 1), Key(2), Img("photo", 1, 2) >>) >>),
      Body(<< FileLink(1), FileLink(1) >>) }

ResDocs == OrderDocs \cup TwiceDocs

ConvDocs ==
    CountDocs \cup SpanDocs \cup ToDoDocs \cup NestDocs \cup ResDocs \cup {WrappedListDoc}

-----------------------------------------------------------------------------
(* Sources for a migration run *)

idC == IdStr(FALSE, << Chunk("hex", 3, FALSE) >>, FALSE)
idCU == IdStr(TRUE, << Chunk("hex", 3, TRUE) >>, TRUE)

\* A page that links to the page with the identifier id, the same with an
\* image after the link, a plain page
DocLinkTo(id) ==
    Body(<< El("p", << Str(Txt("T", 5)), Anchor(Href("q", id, 0), << Str(Txt("L", 4)) >>) >>) >>)
DocLinkImg(id) ==
    Body(<< El("p", << Str(Txt("T", 5)), Anchor(Href("q", id, 0), << Str(Txt("L", 4)) >>) >>),
            Img("photo", 1, 1) >>)
DocPlain == Body(<< ParaK(1) >>)

\* Notebooks of one section each, the first two with one page, the third
\* with two; the first pages link to each other, the first has an image
Notebook1 == << << SPage(idA, DocLinkImg(idCU)) >> >>
Notebook2 == << << SPage(idC, DocLinkTo(idAU)) >> >>
Notebook3 == << << SPage(idC, DocLinkTo(idAU)), SPage(idB, DocPlain) >> >>

RunSrcs ==
    { [notebooks |-> << Notebook1, Notebook2 >>, schema |-> s] : s \in {"rich_text", "url"} }

\* A source whose second notebook has a section of two pages
BatchSrc == [notebooks |-> << Notebook1, Notebook3 >>, schema |-> "rich_text"]

\* The state store as an earlier run left it: no entry, or an entry for the
\* first page with the checksum of its markup as it is now, or as it was
KeyA == generate_page_key("site", 1, 1, idA)
Stored(key, html) == key :> [notion_id |-> 1, checksum |-> calculate_checksum(html)]

RunStates ==
    { << >>,
      Stored(KeyA, DocLinkImg(idCU)),
      Stored(KeyA, DocPlain) }

\* The destination as an earlier run left it: empty, or with the first page
RunDbs == { << >>, << Page(1, "rich_text", idA, << >>) >> }

NoSrc == [notebooks |-> << >>, schema |-> "none"]

\* A destination of one page whose only block links, marked as incomplete,
\* to the page itself
LinkDb ==
    << Page(1, "rich_text", idA,
            << Block("paragraph", << Span(Marked, Href("q", idAU, 0), {}) >>, 0) >>) >>

-----------------------------------------------------------------------------
(* The specifications *)

\* A migration run: pass 1 over the source, then pass 2; or pass 2 alone
\* over a destination with a link to resolve
Init ==
    /\ args \in [resolve_links : BOOLEAN, dry_run : BOOLEAN, resume : BOOLEAN,
                 database_id : BOOLEAN]
    /\ pc = "start"
    /\ \/ ~args.resolve_links /\ onenote \in RunSrcs /\ state \in RunStates /\ db \in RunDbs
       \/ ~args.resolve_links /\ onenote = BatchSrc /\ state = << >> /\ db = << >>
       \/ /\ args.resolve_links /\ ~args.resume /\ args.database_id
          /\ onenote = NoSrc /\ state = << >> /\ db = LinkDb
    /\ calls = << >>
    /\ lr = LR0
    /\ snap = db
    /\ mig = MIG0
    /\ mp = MP0

Next ==
    \/ run \/ ResolveSite \/ FindNotebooks \/ ProcessNotebook \/ SectionStep
    \/ ProcessPage \/ PagesDone
    \/ MapFetch \/ ConvertStep \/ ConvertEnd \/ MapFind \/ MapValidate \/ MapAppendBatch
    \/ MapTables \/ MapReturn
    \/ StartPass2 \/ LRStart \/ LRPage \/ LRDone

Spec == Init /\ [][Next]_vars

\* The markups that are also imported a second time, and the destination
\* as a first import of the plain page left it
AgainDocs == { DocPlain, CountDoc(MaxBlocks - 1, 1), ListDoc(2), SpanDoc("table", "plain", 5) }

ImportedDb ==
    << Page(1, "rich_text", idA,
            Flatten(_validate_blocks(<< TextBlock("paragraph", build_rich_text(ParaK(1), FALSE)) >>), 0)) >>

\* The import of one page (map_page_to_notion) over the markups; the page is
\* new to the destination, or was imported before
InitConv ==
    /\ args = [resolve_links |-> FALSE, dry_run |-> FALSE, resume |-> FALSE,
               database_id |-> TRUE]
    /\ pc = "map_fetch"
    /\ \E doc \in ConvDocs :
         /\ onenote = [notebooks |-> << << << SPage(idA, doc) >> >> >>, schema |-> "rich_text"]
         /\ mig = [MIG0 EXCEPT !.sections = << << SPage(idA, doc) >> >>,
                               !.pages = << SPage(idA, doc) >>]
         /\ \/ db = << >>
            \/ doc \in AgainDocs /\ db = ImportedDb
    /\ state = << >>
    /\ calls = << >>
    /\ lr = LR0
    /\ snap = db
    /\ mp = MP0

NextConv ==
    \/ MapFetch \/ ConvertStep \/ ConvertEnd \/ MapFind \/ MapValidate \/ MapAppendBatch
    \/ MapTables \/ MapReturn

SpecConv == InitConv /\ [][NextConv]_vars


\* Pass 2 run alone (--resolve-links) over the destinations
InitLinks ==
    /\ args \in [resolve_links : {TRUE}, dry_run : BOOLEAN, resume : {FALSE},
                 database_id : BOOLEAN]
    /\ pc = "start"
    /\ IF args.database_id THEN db \in InitDbs ELSE db = EmptyDb
    /\ calls = << >>
    /\ lr = LR0
    /\ snap = db
    /\ onenote = NoSrc
    /\ state = << >>
    /\ mig = MIG0
    /\ mp = MP0

NextLinks == run \/ LRStart \/ LRPage \/ LRDone

SpecLinks == InitLinks /\ [][NextLinks]_vars


-----------------------------------------------------------------------------
(* Claims about a migration run *)

\* The state store holds, under the entry's key, the checksum of the markup
\* that was fetched for the page.
StoredEqual(e) ==
    /\ e.fetched
    /\ get_page_state(state, e.key).found
    /\ get_page_state(state, e.key).checksum = calculate_checksum(e.page.html)

Thm_C2 ==
    /\ \A i \in 1..Len(calls) : \A j \in 1..Len(calls) :
          (i < j /\ calls[i].op \in Pass2Ops) => calls[j].op \notin Pass1Ops
    /\ (\E i \in 1..Len(calls) : calls[i].op \in Pass2Ops) =>
          /\ mig.nb > Len(onenote.notebooks)
          /\ pc \in {"lr_start", "lr_pages", "done", "exit"}

\* C2 witness: both pages were imported, one from each notebook, and pass 2
\* then sent a block update.
Wit_C2 ==
    /\ Len(mig.log) = 2
    /\ mig.log[1].outcome = "imported" /\ mig.log[2].outcome = "imported"
    /\ \E i \in 1..Len(calls) : \E j \in 1..Len(calls) :
          /\ i < j
          /\ calls[i].op = "append_children" /\ calls[i].ok
          /\ calls[j].op = "update_block" /\ calls[j].ok

-----------------------------------------------------------------------------
(* Claims about the import of one page *)

\* The walk over the page's markup has ended.
Converted == pc \notin {"map_fetch", "map_convert"} /\ mp.i > Len(Descendants(mp.html))

\* C5: html_to_blocks_and_tables never returns more than 150 blocks; the
\* blocks returned are the first 150 (or all, if fewer) of the raw blocks of
\* the walk, in their order.
Thm_C5 ==
    Converted =>
       /\ Len(mp.blocks) <= MaxBlocks
       /\ Len(mp.blocks) <= Len(mp.cs.blocks)
       /\ (Len(mp.cs.blocks) >= MaxBlocks => Len(mp.blocks) = MaxBlocks)
       /\ (Len(mp.cs.blocks) < MaxBlocks => Len(mp.blocks) = Len(mp.cs.blocks))
       /\ \A k \in 1..Len(mp.blocks) : mp.blocks[k] = mp.cs.blocks[k]

\* C5 witness: a walk that gave more than 150 raw blocks, of which 150 were
\* returned.
Wit_C5 == Converted /\ Len(mp.cs.blocks) > MaxBlocks /\ Len(mp.blocks) = MaxBlocks

\* C6: the block list handed to append_blocks for one page never holds more
\* than 150 blocks.
Cex_C6 == mp.handed => Len(mp.validated) <= MaxBlocks

\* The blocks of an append request as the sink stores them, children included
SentBlocks(call) == IF call.op = "append_children" THEN Flatten(call.rt, 0) ELSE << >>

\* C7: every span of every block sent to the sink (top-level blocks, their
\* children, the rows of a table) has at most 2000 characters.
Thm_C7 ==
    LET Fit(sent) == \A k \in 1..Len(sent) : \A j \in 1..Len(sent[k].rich_text) :
                        TLen(sent[k].rich_text[j].content) <= SpanLimit
    IN \A n \in 1..Len(calls) : Fit(SentBlocks(calls[n]))

\* C7 witness: the markup held a text longer than the limit inside a nested
\* list item, and the child block sent for it has a span of exactly 2000
\* characters.
Wit_C7 ==
    LET Cut(sent) == \E k \in 1..Len(sent) :
                        /\ sent[k].level = 1
                        /\ \E j \in 1..Len(sent[k].rich_text) :
                              TLen(sent[k].rich_text[j].content) = SpanLimit
        Long(texts) == \E k \in 1..Len(texts) : TLen(texts[k].text) > SpanLimit
    IN /\ Long(FindAll(mp.html, {"#text"}))
       /\ \E n \in 1..Len(calls) : calls[n].ok /\ Cut(SentBlocks(calls[n]))

\* The spans of a list of blocks, in order
SpansOf(blocks) == ConcatAll([k \in 1..Len(blocks) |-> blocks[k].rich_text])

\* The contents of a list of spans, joined
JoinContents(spans) == Norm(ConcatAll([k \in 1..Len(spans) |-> spans[k].content]))

\* C8: a span longer than the limit is split, not cut.  A paragraph of one
\* bold text of 5000 characters is handed on as three bold spans of 2000,
\* 2000 and 1000 characters that join to the text.
Cex_C8 ==
    LET Split(spans) ==
            /\ Len(spans) = 3
            /\ TLen(spans[1].content) = SpanLimit
            /\ TLen(spans[2].content) = SpanLimit
            /\ TLen(spans[3].content) = LongLen - 2 * SpanLimit
            /\ JoinContents(spans) = Txt("T", LongLen)
            /\ \A k \in 1..3 : spans[k].ann = {"bold"} /\ spans[k].link = NoLink
    IN (mp.handed /\ mp.html = SpanDoc("p", "bold", LongLen)) => Split(SpansOf(mp.validated))

\* The element is a list item or paragraph with an unchecked checkbox input
\* and an image below it whose alt text holds "checked".
UncheckedBoxWithImage(el) ==
    /\ el.tag \in {"li", "p"}
    /\ Checkboxes(el) # << >>
    /\ \A k \in 1..Len(Checkboxes(el)) : ~Checkboxes(el)[k].at.checked
    /\ \E k \in 1..Len(FindAll(el, {"img"})) : AltHasCheck(FindAll(el, {"img"})[k].at.alt)

\* The blocks of a list and the blocks below them
RECURSIVE Everywhere(_)
Everywhere(blocks) ==
    ConcatAll([k \in 1..Len(blocks) |-> << blocks[k] >> \o Everywhere(blocks[k].children)])

\* C9: for an element with an unchecked checkbox input and an image whose alt
\* text holds "checked", the converter gives a to-do block that is not
\* checked.
Cex_C9 ==
    LET Marked2(ds) == \E k \in 1..Len(ds) : UncheckedBoxWithImage(ds[k].n)
        ToDo(bs) == \E k \in 1..Len(bs) : bs[k].type = "to_do" /\ bs[k].checked = "false"
    IN (Converted /\ Marked2(Descendants(mp.html))) => ToDo(Everywhere(mp.cs.blocks))

\* The levels of the list items whose text a text holds
TextLevels(t) == { LvlOf(t[r]) : r \in { x \in 1..Len(t) : t[x].s = "LVL" } }

\* The levels of the list items whose text the spans hold
SpanLevels(rich_text) == UNION { TextLevels(rich_text[j].content) : j \in 1..Len(rich_text) }

\* C10: of a nested list, blocks are made for the items of the first three
\* levels only.  No block of the walk, and none sent, lies deeper than two
\* levels below a top-level block, and none holds the text of an item of a
\* level beyond the third.
Thm_C10 ==
    LET Shallow(bs) == \A k \in 1..Len(bs) :
                          /\ bs[k].level <= MaxListDepth - 1
                          /\ \A l \in SpanLevels(bs[k].rich_text) : l <= MaxListDepth
    IN /\ Converted => Shallow(Flatten(mp.cs.blocks, 0))
       /\ \A n \in 1..Len(calls) : Shallow(SentBlocks(calls[n]))

\* C10 witness: the markup held a list four levels deep; the walk gave a
\* block two levels below a top-level block with the text of a third-level
\* item, and it was sent.
Wit_C10 ==
    LET Fourth(texts) == \E k \in 1..Len(texts) : MaxListDepth + 1 \in TextLevels(texts[k].text)
        Third(bs) == \E k \in 1..Len(bs) :
                        /\ bs[k].level = MaxListDepth - 1
                        /\ MaxListDepth \in SpanLevels(bs[k].rich_text)
    IN /\ Converted
       /\ Fourth(FindAll(mp.html, {"#text"}))
       /\ Third(Flatten(mp.cs.blocks, 0))
       /\ \E n \in 1..Len(calls) : calls[n].ok /\ Third(SentBlocks(calls[n]))

-----------------------------------------------------------------------------
(* Claims about pass 2 *)

\* The sink answered the read of page pg's blocks.
ReadOk(pg) ==
    \E n \in 1..Len(calls) :
        calls[n].op = "get_block_children" /\ calls[n].pg = pg /\ calls[n].blk = 0 /\ calls[n].ok

\* Page A stores the (normalised) source identifier nid in its OneNotePageId
\* property, and no page queried after it stores the same one.
StoresId(d, A, nid) ==
    /\ d[A].prop.type \in {"rich_text", "url"}
    /\ NonEmpty(d[A].prop.val)
    /\ NormalizeId(d[A].prop.val) = nid

TargetOf(d, A, nid) ==
    StoresId(d, A, nid) /\ \A A2 \in (A + 1)..Len(d) : ~StoresId(d, A2, nid)

\* The span carries the marker and a link that yields a source identifier.
MarkedWithId(sp) ==
    /\ Contains(sp.content, INCOMPLETE_LINK_MARKER)
    /\ sp.link.k # "none"
    /\ extract_page_id_from_link(sp.link).ok
    /\ NonEmpty(extract_page_id_from_link(sp.link).id)

LinkId(sp) == NormalizeId(extract_page_id_from_link(sp.link).id)

\* C3: pass 2 resolves a marked link whose target exists.  In a pass 2 that
\* is not a dry run, for every block of a page B that pass 2 read (levels
\* 0..3) and every span of it that holds the marker and whose link yields the
\* identifier stored (normalised) by destination page A: a block update for
\* that block was sent in which the span has no marker and links to A's
\* destination URL, and once the sink accepted it the destination holds it.
Thm_C3 ==
    ~args.dry_run =>
    \A B \in 1..Len(snap) : ReadOk(B) =>
      \A k \in 1..Len(snap[B].blocks) : snap[B].blocks[k].level <= MaxFetchDepth =>
        \A j \in 1..Len(snap[B].blocks[k].rich_text) :
          LET sp == snap[B].blocks[k].rich_text[j] IN
          MarkedWithId(sp) =>
            \A A \in 1..Len(snap) : TargetOf(snap, A, LinkId(sp)) =>
              \E n \in 1..Len(calls) :
                 /\ calls[n].op = "update_block"
                 /\ calls[n].pg = B /\ calls[n].blk = k
                 /\ ~Contains(calls[n].rt[j].content, INCOMPLETE_LINK_MARKER)
                 /\ calls[n].rt[j].link = NotionUrl(snap[A].id)
                 /\ calls[n].ok => db[B].blocks[k].rich_text[j] = calls[n].rt[j]

\* C3 witness: pass 2 ended, and a marked span of page 1 whose link names the
\* identifier of page 2 now sits in the destination without marker, linking
\* to page 2.
Wit_C3 ==
    /\ pc = "done" /\ ~args.dry_run
    /\ \E k \in 1..Len(snap[1].blocks) : \E j \in 1..Len(snap[1].blocks[k].rich_text) :
         /\ MarkedWithId(snap[1].blocks[k].rich_text[j])
         /\ TargetOf(snap, 2, LinkId(snap[1].blocks[k].rich_text[j]))
         /\ ~Contains(db[1].blocks[k].rich_text[j].content, INCOMPLETE_LINK_MARKER)
         /\ db[1].blocks[k].rich_text[j].link = NotionUrl(2)

\* A span pass 2 cannot resolve: marked, but no identifier can be read from
\* its link, or no page stores it.
Unresolvable(d, sp) ==
    /\ Contains(sp.content, INCOMPLETE_LINK_MARKER)
    /\ \/ ~MarkedWithId(sp)
       \/ \A A \in 1..Len(d) : ~StoresId(d, A, LinkId(sp))

Resolvable(d, sp) == MarkedWithId(sp) /\ \E A \in 1..Len(d) : StoresId(d, A, LinkId(sp))

\* C4: pass 2 leaves unresolvable links untouched.  Every span that holds the
\* marker but whose identifier cannot be extracted or is stored by no page is
\* the same in the destination after pass 2 as before, and every block update
\* sent is for a block with at least one resolvable span.
Thm_C4 ==
    /\ \A B \in 1..Len(snap) : \A k \in 1..Len(snap[B].blocks) :
         \A j \in 1..Len(snap[B].blocks[k].rich_text) :
            Unresolvable(snap, snap[B].blocks[k].rich_text[j]) =>
               db[B].blocks[k].rich_text[j] = snap[B].blocks[k].rich_text[j]
    /\ \A n \in 1..Len(calls) : calls[n].op = "update_block" =>
         /\ \E j \in 1..Len(snap[calls[n].pg].blocks[calls[n].blk].rich_text) :
               Resolvable(snap, snap[calls[n].pg].blocks[calls[n].blk].rich_text[j])
         /\ \A j \in 1..Len(snap[calls[n].pg].blocks[calls[n].blk].rich_text) :
               Unresolvable(snap, snap[calls[n].pg].blocks[calls[n].blk].rich_text[j]) =>
                  calls[n].rt[j] = snap[calls[n].pg].blocks[calls[n].blk].rich_text[j]

\* C4 witness: pass 2 ended; a block of page 1 held a resolved span next to an
\* unresolvable one, its update was accepted, and the unresolvable span is as
\* it was; page 2 held a marked span that no page resolves and got no update.
Wit_C4 ==
    /\ pc = "done" /\ ~args.dry_run
    /\ \E k \in 1..Len(snap[1].blocks) :
         /\ \E j \in 1..Len(snap[1].blocks[k].rich_text) :
               /\ Unresolvable(snap, snap[1].blocks[k].rich_text[j])
               /\ db[1].blocks[k].rich_text[j] = snap[1].blocks[k].rich_text[j]
         /\ \E j \in 1..Len(snap[1].blocks[k].rich_text) :
               db[1].blocks[k].rich_text[j] # snap[1].blocks[k].rich_text[j]
    /\ snap[2].blocks # << >>
    /\ Unresolvable(snap, snap[2].blocks[1].rich_text[1])
    /\ ReadOk(2)
    /\ \A n \in 1..Len(calls) : calls[n].op = "update_block" => calls[n].pg # 2


-----------------------------------------------------------------------------
(* Claims about resources *)

\* The fetches of resource src that the converter made, and the upload slots
\* it asked the sink for
FetchesOf(src) == { k \in 1..Len(mp.cs.res) : mp.cs.res[k].src = src }
UploadsOf(src) == { n \in 1..Len(calls) : calls[n].op = "upload" /\ calls[n].blk = src }

\* C11: within the conversion of one document a resource is fetched at most
\* once and uploaded at most once, however often the document names it, and
\* the blocks made for it carry one upload id.
Cex_C11 ==
    Converted =>
       \A src \in Resources(mp.html) \ {0} :
          /\ Cardinality(FetchesOf(src)) <= 1
          /\ Cardinality(UploadsOf(src)) <= 1
          /\ \A i \in FetchesOf(src) : \A j \in FetchesOf(src) :
                (mp.cs.res[i].id # 0 /\ mp.cs.res[j].id # 0)
                   => mp.cs.res[i].id = mp.cs.res[j].id

\* The leaf of the document a block was made for: the resource whose upload
\* it carries, or the leaf its text starts with
SrcOfUpload(id) ==
    mp.cs.res[CHOOSE k \in 1..Len(mp.cs.res) : mp.cs.res[k].id = id].src
LeafOf(b) ==
    IF b.upload # 0 THEN SrcOfUpload(b.upload) ELSE b.rich_text[1].content[1].o \div 10

\* C12: the blocks of a document are emitted in document order: of two
\* leaves (the text of a heading, paragraph or list item, an image, a file
\* link) the block of the one that comes first in the markup comes first in
\* the block list.
Cex_C12 ==
    LET Ordered(bs) == \A i \in 1..Len(bs) : \A j \in 1..Len(bs) :
                          i < j => LeafOf(bs[i]) < LeafOf(bs[j])
    IN (Converted /\ mp.html \in OrderDocs) => Ordered(Everywhere(mp.cs.blocks))


-----------------------------------------------------------------------------
(* Claims about failures *)

\* The log entries of the pages that were handed to map_page_to_notion, and
\* those among them that ended in a given way
Attempted == { n \in 1..Len(mig.log) : mig.log[n].outcome \in {"imported", "failed"} }
Ended(outcome) == { n \in 1..Len(mig.log) : mig.log[n].outcome = outcome }

Omitted == { k \in 1..Len(mp.cs.res) : mp.cs.res[k].id = 0 }

\* C14: a failure to fetch or to upload one embedded image or file (an error
\* status or a transport exception from the content fetch, from the request
\* that creates the upload slot or from the request that sends the bytes)
\* never aborts the enclosing document: no exception leaves the walk over
\* the markup, so the page is never given up for a resource.
Cex_C14 ==
    \A k \in Omitted : ~mp.cs.raised /\ ~(mp.i <= Len(Descendants(mp.html)) /\ mp.result = "failed")


\* The requests of the import of a page that the sink refused: the creation
\* or update of the page, a batch of blocks, a table
Refused ==
    { c \in 1..Len(calls) :
        calls[c].op \in {"create_page", "update_page", "append_children"} /\ ~calls[c].ok }

\* C15: the import of a document is all-or-nothing.  When a step of it was
\* refused (the creation of the page, a batch of blocks, a table), the
\* destination holds nothing of the attempt once the import has returned: it
\* is as it was before, with no new page, and so with no page that has only
\* a part of the blocks.
Cex_C15 ==
    (pc = "map_return" /\ Refused # {}) => db = snap


-----------------------------------------------------------------------------
(* Claims about the requests of an import *)

\* The requests of append_blocks for the blocks of the page, in the order
\* they were sent (a request for a table carries one table block)
IsBatch(call) == call.op = "append_children" /\ call.rt[1].type # "table"
Batches == SelectSeq(calls, IsBatch)
BatchesSent == ConcatAll([k \in 1..Len(Batches) |-> Batches[k].rt])

\* C16: append_blocks sends the children in consecutive requests of at most
\* 50 blocks each: every request but the last one sent carries exactly 50,
\* only the last one may have been refused, the batches sent so far are,
\* one after the other, the beginning of the input list, and when
\* append_blocks has returned they are the input list, every block once and
\* in its place.
Thm_C16 ==
    /\ \A k \in 1..Len(Batches) :
          /\ Len(Batches[k].rt) \in 1..AppendBatch
          /\ k < Len(Batches) => Len(Batches[k].rt) = AppendBatch /\ Batches[k].ok
    /\ Len(BatchesSent) <= Len(mp.validated)
    /\ BatchesSent = SubSeq(mp.validated, 1, Len(BatchesSent))
    /\ (mp.handed /\ (pc = "map_tables" \/ mp.result = "imported")) =>
          BatchesSent = mp.validated

\* C16 witness: append_blocks has returned after four requests, three of
\* 50 blocks and one of one block, which together are the input list.
Wit_C16 ==
    /\ pc = "map_tables" /\ mp.handed
    /\ Len(Batches) = 4
    /\ Len(Batches[3].rt) = AppendBatch /\ Len(Batches[4].rt) = 1
    /\ \A k \in 1..4 : Batches[k].ok
    /\ Len(mp.validated) = 3 * AppendBatch + 1
    /\ BatchesSent = mp.validated


\* The resources handled so far whose data was fetched and is larger than
\* the ceiling, and those whose data is not
TooLarge == { k \in 1..Len(mp.cs.res) :
                mp.cs.res[k].io.fetch = "ok" /\ mp.cs.res[k].io.size > MaxUploadSize }
Fits == { k \in 1..Len(mp.cs.res) :
            mp.cs.res[k].io.fetch = "ok" /\ mp.cs.res[k].io.size <= MaxUploadSize }

\* C17: a resource larger than 20 MB is rejected at once: upload_file returns
\* no upload id for it and makes neither the request that creates the upload
\* slot nor the request that sends the bytes; the only such requests are
\* those for the resources that fit, one slot request for each.
Thm_C17 ==
    /\ \A k \in TooLarge : mp.cs.res[k].id = 0 /\ mp.cs.res[k].calls = << >>
    /\ Cardinality({ c \in 1..Len(calls) : calls[c].op = "upload" }) = Cardinality(Fits)
    /\ Cardinality({ c \in 1..Len(calls) : calls[c].op = "upload_send" }) <= Cardinality(Fits)

\* C17 witness: of two resources of a page, one had 20 MB and one byte and
\* was rejected without a request, the other had 20 MB and was uploaded.
Wit_C17 ==
    \E k \in TooLarge : \E j \in Fits :
       /\ mp.cs.res[k].io.size = MaxUploadSize + 1
       /\ mp.cs.res[k].id = 0 /\ mp.cs.res[k].calls = << >>
       /\ mp.cs.res[j].io.size = MaxUploadSize
       /\ mp.cs.res[j].id # 0 /\ Len(mp.cs.res[j].calls) = 2


-----------------------------------------------------------------------------
(* Claims about the state store *)

\* C18: the state store is written after each page.  After every page that
\* was imported, the store holds under the page's key the checksum of the
\* page's markup, before the next page is processed.
Cex_C18 ==
    \A n \in Ended("imported") :
       /\ get_page_state(state, mig.log[n].key).found
       /\ get_page_state(state, mig.log[n].key).checksum
             = calculate_checksum(mig.log[n].page.html)


-----------------------------------------------------------------------------
(* Claims about the listings *)

\* The run has ended in pass 1, before the last notebook was done.
AbortedInPass1 ==
    pc = "exit" /\ ~args.resolve_links /\ mig.nb <= Len(onenote.notebooks)

\* C19: a remote failure of a listing call aborts only the current unit of
\* work, and the whole run is aborted only when the resolution of the site
\* fails: a run that ended before its last notebook was done has reported
\* the failure of the site resolution.
Cex_C19 == AbortedInPass1 => mig.failure = "site"


-----------------------------------------------------------------------------
(* Claims about a dry run *)

\* C20: in a dry run nothing is changed.  No create-page, update-page,
\* append-children, upload or block-update request goes to the destination,
\* in the import pass or in the link resolution; the destination is as it
\* was found, and the state store is as the earlier run left it.
Thm_C20 ==
    args.dry_run =>
       /\ \A c \in 1..Len(calls) : calls[c].op \notin WriteOps
       /\ db \in RunDbs \cup {LinkDb}
       /\ state \in RunStates
       /\ \A n \in 1..Len(mig.log) : mig.log[n].outcome \notin {"imported", "failed"}

\* C20 witness: a dry run of the link resolution has ended after it read the
\* blocks of a page with a link it could resolve and counted the link as
\* resolved; the destination is as it was.
Wit_C20 ==
    /\ args.dry_run /\ args.resolve_links /\ pc = "done"
    /\ lr.resolved_count = 1
    /\ \E c \in 1..Len(calls) : calls[c].op = "get_block_children" /\ calls[c].ok
    /\ db = LinkDb


-----------------------------------------------------------------------------
(* Claims about the validator *)

\* The places of the image and file blocks in a list of blocks
MediaAt(blocks) == { k \in 1..Len(blocks) : blocks[k].type \in {"image", "file"} }

\* C21: the validator passes the blocks without rich text (image and file
\* blocks that hold an upload) through unchanged: every image or file block
\* the converter produced is in the list handed to append_blocks, and the
\* image and file blocks of that list are those of the converter, in their
\* order.
Cex_C21 ==
    mp.handed =>
       /\ \A k \in MediaAt(mp.blocks) :
             \E j \in MediaAt(mp.validated) : mp.validated[j] = mp.blocks[k]
       /\ Cardinality(MediaAt(mp.validated)) = Cardinality(MediaAt(mp.blocks))


\* A run of blocks is in a list of blocks, one block after the other
RunIn(piece, blocks) ==
    \E off \in 0..(Len(blocks) - Len(piece)) :
       SubSeq(blocks, off + 1, off + Len(piece)) = piece

\* What C22 says of one block with spans and the run the validator makes of it
SplitRight(b, out) ==
    IF TotalLength(b.rich_text) <= SpanLimit
    THEN out = << b >>
    ELSE /\ Len(out) >= 2
         /\ \A j \in 1..Len(out) :
               /\ out[j].type = b.type
               /\ out[j].rich_text # << >>
               /\ TotalLength(out[j].rich_text) <= SpanLimit
         /\ JoinContents(SpansOf(out)) = JoinContents(b.rich_text)
         /\ (\A i \in 1..Len(b.rich_text) : TLen(b.rich_text[i].content) <= SpanLimit)
               => SpansOf(out) = b.rich_text

\* C22: when the text of a block's spans together exceeds the cap, the
\* validator replaces the block with a run of blocks of the same type, each
\* with at most 2000 characters in its spans, whose spans in order give the
\* text of the block; a span is cut only when it alone exceeds the cap
\* (otherwise the spans of the run are the spans of the block), and a block
\* with spans that is within the cap is returned unchanged.  The runs are in
\* the list handed to append_blocks.
Thm_C22 ==
    mp.handed =>
       \A k \in 1..Len(mp.blocks) :
          mp.blocks[k].rich_text # << >> =>
             /\ SplitRight(mp.blocks[k], ValidateBlock(mp.blocks[k]))
             /\ RunIn(ValidateBlock(mp.blocks[k]), mp.validated)

\* C22 witness: a code block with one span of 5000 characters was handed on
\* as three code blocks of 2000, 2000 and 1000 characters.
Wit_C22 ==
    /\ mp.handed
    /\ Len(mp.blocks) = 1 /\ mp.blocks[1].type = "code"
    /\ Len(mp.blocks[1].rich_text) = 1 /\ TLen(mp.blocks[1].rich_text[1].content) = LongLen
    /\ Len(mp.validated) = 3
    /\ \A j \in 1..3 : mp.validated[j].type = "code"
    /\ TLen(mp.validated[3].rich_text[1].content) = LongLen - 2 * SpanLimit
    /\ JoinContents(SpansOf(mp.validated)) = JoinContents(mp.blocks[1].rich_text)


-----------------------------------------------------------------------------
(* Claims about to-dos and lists *)

\* The markups of one list item or paragraph that carries the to-do tag
\* marker, has no checkbox input and no image, and whose text starts with a
\* checkbox glyph, a markdown checkbox or neither
TaggedDocs ==
    { ToDoDoc(c, "none", "none", FALSE, TRUE, px) :
        c \in {"li", "p"}, px \in {"none", "CBT", "CBF", "MDX", "MDO"} }

\* C23: the to-do detection stops at the first signal that matches, in the
\* order checkbox input, to-do tag marker, image alt text, checked glyph,
\* unchecked glyph, markdown checkbox.  So a paragraph or list item with the
\* to-do tag marker (and no checkbox input) gives one to-do block that is not
\* checked, whatever its text starts with.
Cex_C23 ==
    (Converted /\ mp.html \in TaggedDocs) =>
       /\ Len(mp.blocks) = 1
       /\ mp.blocks[1].type = "to_do"
       /\ mp.blocks[1].checked = "false"


\* The markup holds the text of a list item of the level below the last one
\* that gets blocks.
HasDeeperItem(html) ==
    \E k \in 1..Len(FindAll(html, {"#text"})) :
       MaxListDepth + 1 \in TextLevels(FindAll(html, {"#text"})[k].text)

\* C24: list content below the depth cap is not lost.  When an item of the
\* third level holds a further list, the text of the items of that list is in
\* the rich text of the block of the third-level item.
Cex_C24 ==
    (Converted /\ HasDeeperItem(mp.html)) =>
       \E k \in 1..Len(Flatten(mp.cs.blocks, 0)) :
          /\ Flatten(mp.cs.blocks, 0)[k].level = MaxListDepth - 1
          /\ MaxListDepth \in SpanLevels(Flatten(mp.cs.blocks, 0)[k].rich_text)
          /\ MaxListDepth + 1 \in SpanLevels(Flatten(mp.cs.blocks, 0)[k].rich_text)


\* C25: a list that is nested in an item of another list (the item is its
\* parent) is converted only through that item, as the item's children, and
\* is not started again by the walk.  No list item is emitted as more than
\* one block, and the items of a nested list are not among the top-level
\* blocks: a block holds the text of the item of its own level only.
Thm_C25 ==
    (Converted /\ mp.html \in NestDocs \cup {WrappedListDoc}) =>
       LET bs == Flatten(mp.cs.blocks, 0) IN
       /\ \A j \in 1..Len(bs) : \A k \in 1..Len(bs) :
             (j # k /\ SpanLevels(bs[j].rich_text) # {}) => bs[j].rich_text # bs[k].rich_text
       /\ mp.html \in NestDocs =>
             \A k \in 1..Len(bs) : SpanLevels(bs[k].rich_text) = {bs[k].level + 1}

\* C25 witness: of a list three levels deep the walk gave two top-level
\* blocks, the items of the first level, and below the first of them the
\* items of the second and of the third level.
Wit_C25 ==
    /\ Converted /\ mp.html \in NestDocs
    /\ Len(mp.cs.blocks) = 2
    /\ Len(Flatten(mp.cs.blocks, 0)) = 6
    /\ \E k \in 1..6 : /\ Flatten(mp.cs.blocks, 0)[k].level = 2
                       /\ SpanLevels(Flatten(mp.cs.blocks, 0)[k].rich_text) = {3}


-----------------------------------------------------------------------------
(* Claims about anchors *)

\* What C26 says of the rich text of an element whose only child is an
\* anchor with the text T of n characters: one span, with the href as its
\* link, and as its content the text, followed by the marker when the href
\* is an internal link.
AnchorSpan(rich_text, kind, n) ==
    /\ Len(rich_text) = 1
    /\ rich_text[1].link = (IF kind = "int" THEN Href("q", idAU, 0) ELSE ExtLink)
    /\ rich_text[1].content = (IF kind = "int" THEN Cat(Txt("T", n), INCOMPLETE_LINK_MARKER)
                               ELSE Norm(Txt("T", n)))

\* C26: for every anchor with an href and a text, build_rich_text gives
\* exactly one span whose link is the href as it is, without going into the
\* anchor's children; the span's content is the anchor's text with the
\* marker at its end when the href is an internal link, and the anchor's
\* text alone when it is not.
Cex_C26 ==
    \A c \in {"p", "h1", "blockquote", "ul"} : \A kind \in {"int", "ext"} : \A n \in Lens :
       (Converted /\ mp.html = SpanDoc(c, kind, n)) =>
          /\ Len(mp.cs.blocks) = 1
          /\ AnchorSpan(mp.cs.blocks[1].rich_text, kind, n)


-----------------------------------------------------------------------------
(* Claims about the update path *)

\* The import found the page in the destination and updated it.
Updated == \E c \in 1..Len(calls) : calls[c].op = "update_page" /\ calls[c].ok

\* The blocks the import has appended to the page so far, as the sink keeps
\* them
Appended ==
    ConcatAll([c \in 1..Len(calls) |->
                  IF calls[c].op = "append_children" /\ calls[c].ok
                  THEN Flatten(calls[c].rt, 0) ELSE << >>])

PagesFor(id) ==
    { k \in 1..Len(db) : db[k].prop.type \in {"rich_text", "url", "title"} /\ db[k].prop.val = id }

\* C28: whatever the destination answers, failed lookups included, it never
\* holds more than one page for a source page: a page is created only when
\* no page stores the source page's identifier.
Cex_C28 ==
    \A k \in 1..Len(db) : db[k].prop.type # "none" => Cardinality(PagesFor(db[k].prop.val)) <= 1


-----------------------------------------------------------------------------
(* Claims about text next to images *)

\* The starts of the runs of letters in a text
Letters(t) == { t[r].o : r \in { x \in 1..Len(t) : t[x].s = "T" } }

\* The starts of the runs of letters in the strings below an element
ElLetters(el) ==
    UNION { Letters(FindAll(el, {"#text"})[k].text) : k \in 1..Len(FindAll(el, {"#text"})) }

\* The starts of the runs of letters in the spans of the blocks, at any level
BlockLetters(blocks) ==
    LET SpanLetters(rich_text) == UNION { Letters(rich_text[j].content) : j \in 1..Len(rich_text) }
        In(all) == UNION { SpanLetters(all[k].rich_text) : k \in 1..Len(all) }
    IN In(Everywhere(blocks))

\* The paragraphs and list items that hold text and an image, directly or
\* inside an inline child
WithTextAndImage(html, tags, nested) ==
    { k \in 1..Len(Descendants(html)) :
        /\ Descendants(html)[k].n.tag \in tags
        /\ HasText(Descendants(html)[k].n)
        /\ FindAll(Descendants(html)[k].n, {"img"}) # << >>
        /\ (FindDirect(Descendants(html)[k].n, {"img"}) = << >>) \in nested }

TextKept(tags, nested) ==
    (Converted /\ ~mp.cs.raised) =>
       \A k \in WithTextAndImage(mp.html, tags, nested) :
          ElLetters(Descendants(mp.html)[k].n) \subseteq BlockLetters(mp.cs.blocks)

\* C29: text is never dropped because of an image.  The text of every
\* paragraph and list item that holds text and an image, as a direct child or
\* inside an inline child, is in some block of the conversion, whether or not
\* the image could be fetched and uploaded.
Cex_C29 == TextKept({"p", "li"}, BOOLEAN)


-----------------------------------------------------------------------------
(* Claims about a second run of pass 2 *)

\* The run of pass 2 is over, it was no dry run, and none of its requests
\* of the given kinds failed
RanWithout(ops) ==
    /\ pc = "done"
    /\ ~args.dry_run
    /\ \A c \in 1..Len(calls) : calls[c].op \in ops => calls[c].ok

\* A second run of pass 2 over the destination as it is now sends no block
\* update and leaves every span as it is
SecondRunIdle ==
    \A pg \in 1..Len(db) :
       /\ UpdateCalls(pg, db[pg].blocks, _build_page_mapping(db), {}) = << >>
       /\ SinkUpdate(db[pg].blocks, _build_page_mapping(db), {}) = db[pg].blocks

\* The spans of the destination that hold the marker
MarkedSpans(d) ==
    LET InBlock(p, k) == { <<p, k, j>> : j \in { x \in 1..Len(d[p].blocks[k].rich_text) :
                              Contains(d[p].blocks[k].rich_text[x].content, INCOMPLETE_LINK_MARKER) } }
        InPage(p) == UNION { InBlock(p, k) : k \in 1..Len(d[p].blocks) }
    IN UNION { InPage(p) : p \in 1..Len(d) }

=============================================================================
